---- MODULE Spec2Model ----
(***************************************************************************)
(* State-machine model of dye's task runner: the settings-link operations  *)
(* of tasklib/managers.py (DjangoManager) and the dispatcher of tasks.py.  *)
(*                                                                         *)
(* A Python string is a sequence of one-character strings, so that         *)
(* formatting ('local_settings.py.%s' % environment) and parsing           *)
(* (readlink(...).split('.')[-1]) are computed, not assumed inverse.       *)
(***************************************************************************)
EXTENDS Integers, Sequences, FiniteSets, TLC

----------------------------------------------------------------------------
(* Strings                                                                 *)

LOCAL_SETTINGS_PY ==
    <<"l", "o", "c", "a", "l", "_", "s", "e", "t", "t", "i", "n", "g", "s", ".", "p", "y">>

Dev == <<"d", "e", "v">>

DevFasttests == <<"d", "e", "v", "_", "f", "a", "s", "t", "t", "e", "s", "t", "s">>

EuProd == <<"e", "u", ".", "p", "r", "o", "d">>

\* The environment names for which a variant file may exist and which a
\* caller may pass: a plain one, the one quick_test hard-codes, a dotted one.
Envs == {Dev, DevFasttests, EuProd}

\* self.django_settings_dir, a directory of the project checkout.
django_settings_dir == <<"/", "p">>

\* Python values that reach the manager: None, str, bool and int.
PyNone == [t |-> "none"]

PyStr(s) == [t |-> "str", s |-> s]

PyBool(b) == [t |-> "bool", b |-> b]

PyInt(n) == [t |-> "int", n |-> n]

Digits == <<"0", "1", "2", "3", "4", "5", "6", "7", "8", "9">>

DigitValue(ch) == (CHOOSE i \in 1..10 : Digits[i] = ch) - 1

RECURSIVE IntToStr(_)
\* str(n) for n >= 0
IntToStr(n) ==
    IF n < 10 THEN <<Digits[n + 1]>> ELSE IntToStr(n \div 10) \o <<Digits[(n % 10) + 1]>>

\* '%s' % value
FormatS(value) ==
    CASE value.t = "str" -> value.s
      [] value.t = "bool" -> IF value.b THEN <<"T", "r", "u", "e">>
                             ELSE <<"F", "a", "l", "s", "e">>
      [] value.t = "int" -> IntToStr(value.n)
      [] OTHER -> <<"N", "o", "n", "e">>

\* bool(value), as tested by "if environment:"
Truthy(value) ==
    CASE value.t = "str" -> Len(value.s) > 0
      [] value.t = "bool" -> value.b
      [] value.t = "int" -> value.n # 0
      [] OTHER -> FALSE

\* os.path.join(a, b) for a relative b
PathJoin(a, b) == a \o <<"/">> \o b

IsPrefix(p, s) == Len(p) <= Len(s) /\ SubSeq(s, 1, Len(p)) = p

\* The largest index of s holding ch, 0 when there is none.
LastIndexOf(s, ch) ==
    IF \E i \in 1..Len(s) : s[i] = ch
    THEN CHOOSE i \in 1..Len(s) : s[i] = ch /\ \A j \in (i+1)..Len(s) : s[j] # ch
    ELSE 0

\* s.split('.')[-1]
SplitLast(s) == SubSeq(s, LastIndexOf(s, ".") + 1, Len(s))

\* s.split('.')[0], the mutation that takes the wrong end of the split
SplitFirstMutant(s) ==
    IF \E i \in 1..Len(s) : s[i] = "."
    THEN SubSeq(s, 1, (CHOOSE i \in 1..Len(s) : s[i] = "." /\ \A j \in 1..(i-1) : s[j] # ".") - 1)
    ELSE s

\* os.readlink(local_settings).split('.')[-1]
EnvironmentOfLink(link_target) == SplitLast(link_target)

----------------------------------------------------------------------------
(* The settings directory                                                  *)

Absent == [kind |-> "absent"]

\* A regular file; content names the text it holds (a variant's own text is
\* named by its environment).
RegularFile(content) == [kind |-> "file", content |-> content]

SymLink(target) == [kind |-> "symlink", target |-> target]

\* A second directory entry for the file at path `to`.
HardLink(to) == [kind |-> "hardlink", to |-> to]

\* The text of a pre-existing local_settings.py that is no variant's.
Unrelated == <<"?">>

\* 'local_settings.py.%s' % environment
VariantName(env) == LOCAL_SETTINGS_PY \o <<".">> \o FormatS(env)

SourcePath(env) == PathJoin(django_settings_dir, VariantName(env))

TargetPath == PathJoin(django_settings_dir, LOCAL_SETTINGS_PY)

VARIABLES
    os_name,             \* os.name: "posix", "nt" or anything else ("other")
    win32file,           \* on nt: "missing", "symlink" (CreateSymbolicLink works)
                         \* or "hardlink" (it raises NotImplementedError)
    settings_py,         \* settings.py: "absent", "no_import" or "imports"
    variants,            \* variants[E]: the entry local_settings.py.E
    local_settings,      \* the entry local_settings.py (the canonical path)
    local_settings_pyc,  \* TRUE when local_settings.pyc exists
    private_settings,    \* private_settings.py: "absent", or the text it holds:
                         \* "preexisting" or the secrets generated into it
    environment,         \* self.environment
    last,                \* the call that ended last: operation, argument, outcome
    prev_link,           \* the environment linked by the call before `last`
                         \* when that was a successful link_local_settings
    argv,                \* what main was called with: the flags and <tasks>
    run                  \* where main is: its position in the task loop, what
                         \* it invoked and printed, how it ended

fsvars == <<os_name, win32file, settings_py, variants, local_settings,
            local_settings_pyc, private_settings, environment, last, prev_link>>

mainvars == <<argv, run>>

vars == <<fsvars, mainvars>>

\* The manager and its directory as one value, threaded through a call.
Machine ==
    [settings_py |-> settings_py, variants |-> variants,
     local_settings |-> local_settings, local_settings_pyc |-> local_settings_pyc,
     private_settings |-> private_settings, environment |-> environment]

\* os.lstat: the entry at a path, links not followed.
Lstat(m, p) ==
    IF p = TargetPath THEN m.local_settings
    ELSE IF p = TargetPath \o <<"c">>
         THEN (IF m.local_settings_pyc THEN RegularFile(Unrelated) ELSE Absent)
    ELSE IF \E E \in Envs : p = SourcePath(PyStr(E))
         THEN m.variants[CHOOSE E \in Envs : p = SourcePath(PyStr(E))]
    ELSE Absent

\* A link target is relative to the directory unless it is absolute.
ResolveFrom(target) ==
    IF IsPrefix(<<"/">>, target) THEN target ELSE PathJoin(django_settings_dir, target)

\* os.path.exists: links are followed, a dangling link does not exist.
PathExists(m, p) ==
    LET e == Lstat(m, p)
    IN  IF e.kind = "symlink"
        THEN Lstat(m, ResolveFrom(e.target)).kind \in {"file", "hardlink"}
        ELSE e.kind # "absent"

\* os.path.exists that does not follow links (lexists), the mutation.
PathLexists(m, p) == Lstat(m, p).kind # "absent"

\* The text read through an entry.
ContentAt(m, p) ==
    LET e == Lstat(m, p)
    IN  CASE e.kind = "file" -> e.content
          [] e.kind = "hardlink" -> Lstat(m, e.to).content
          [] e.kind = "symlink" -> Lstat(m, ResolveFrom(e.target)).content
          [] OTHER -> Unrelated

----------------------------------------------------------------------------
(* Exceptions and results                                                  *)

NoExc == [cls |-> "none"]

\* An exception of class cls.
Exc(cls) == [cls |-> cls]

\* e.exit_code, the attribute an exception of a TasksError class carries.
ExitCodeOf(exc) == [t |-> "exit_code", of |-> exc.cls]

\* TasksError and its subclasses.
TasksErrorClasses == {"TasksError", "InvalidProjectError", "ShellCommandError"}

IsTasksError(exc) == exc.cls \in TasksErrorClasses

\* A call's result: the machine it leaves, the exception it raised (or
\* NoExc), its return value and the steps it went through.
Result(m, exc, ret, steps) == [m |-> m, exc |-> exc, ret |-> ret, steps |-> steps]

Returned(r) == r.exc = NoExc

\* The trace of one step: the operation entered, the argument it was given
\* (None when it takes none) and the exception it raised (NoExc when it
\* returned).
Did(step, arg, exc) == <<[step |-> step, arg |-> arg, exc |-> exc]>>

\* The operations of a trace, in order.
StepNames(steps) == [i \in 1..Len(steps) |-> steps[i].step]

----------------------------------------------------------------------------
(* DjangoManager: the environment linker                                   *)

\* check_settings_imports_local_settings: the exception it raises, or NoExc.
check_settings_imports_local_settings(m) ==
    IF m.settings_py = "absent"
    THEN Exc("InvalidProjectError")
    ELSE IF m.settings_py = "no_import"
         THEN Exc("InvalidProjectError")
         ELSE NoExc

\* The mutation that keeps the stale compiled file.
RemoveOldFilesKeepPyc(m) ==
    IF PathExists(m, TargetPath) THEN [m EXCEPT !.local_settings = Absent] ELSE m

\* for old_file in (target, target + 'c'): if path.exists(old_file): os.remove(old_file)
RemoveOldFiles(m) ==
    LET m1 == IF PathExists(m, TargetPath) THEN [m EXCEPT !.local_settings = Absent] ELSE m
    IN  IF PathExists(m1, TargetPath \o <<"c">>)
        THEN [m1 EXCEPT !.local_settings_pyc = FALSE]
        ELSE m1

\* os.symlink(link_target, target): fails when an entry is already there.
OsSymlink(m, link_target) ==
    IF Lstat(m, TargetPath).kind # "absent"
    THEN Result(m, Exc("OSError"), PyNone, <<>>)
    ELSE Result([m EXCEPT !.local_settings = SymLink(link_target)], NoExc, PyNone, <<>>)

\* win32file.CreateHardLink(target, source)
CreateHardLink(m, source) ==
    IF Lstat(m, TargetPath).kind # "absent"
    THEN Result(m, Exc("pywintypes.error"), PyNone, <<>>)
    ELSE Result([m EXCEPT !.local_settings = HardLink(source)], NoExc, PyNone, <<>>)

\* shutil.copy2(source, target): open(target, 'wb') writes through a link
\* that is already there, creating the file it names.
ShutilCopy2(m, source) ==
    LET e == Lstat(m, TargetPath)
        text == ContentAt(m, source)
    IN  IF e.kind = "symlink"
        THEN LET p == ResolveFrom(e.target)
             IN  IF \E E \in Envs : p = SourcePath(PyStr(E))
                 THEN Result([m EXCEPT !.variants[CHOOSE E \in Envs : p = SourcePath(PyStr(E))]
                                           = RegularFile(text)],
                             NoExc, PyNone, <<>>)
                 ELSE Result(m, NoExc, PyNone, <<>>)
        ELSE Result([m EXCEPT !.local_settings = RegularFile(text)], NoExc, PyNone, <<>>)

\* The mutation that always links the dev variant.
CreateLinkAlwaysDev(m, env) == OsSymlink(m, VariantName(PyStr(Dev)))

\* The platform branches of link_local_settings that create the new entry.
CreateLink(m, env) ==
    IF os_name = "posix"
    THEN OsSymlink(m, VariantName(env))
    ELSE IF os_name = "nt"
         THEN IF win32file = "missing"
              THEN Result(m, Exc("Exception"), PyNone, <<>>)
              ELSE IF win32file = "symlink"
                   THEN OsSymlink(m, SourcePath(env))
                   ELSE CreateHardLink(m, SourcePath(env))
         ELSE ShutilCopy2(m, SourcePath(env))

\* The mutation that creates the new entry before checking anything.
link_local_settings_unchecked(m, environment_arg) ==
    LET Record(made) ==
            IF ~Returned(made)
            THEN Result(made.m, made.exc, PyNone, Did("link_local_settings", environment_arg, made.exc))
            ELSE Result([made.m EXCEPT !.environment = environment_arg],
                        NoExc, PyNone, Did("link_local_settings", environment_arg, NoExc))
    IN  CHOOSE done \in {Record(made) :
                          made \in {CreateLink(RemoveOldFiles(m), environment_arg)}} : TRUE

\* The mutation that forgets to record the environment.
link_local_settings_no_record(m, environment_arg) ==
    LET checked == check_settings_imports_local_settings(m)
    IN  IF checked # NoExc
        THEN Result(m, checked, PyNone, Did("link_local_settings", environment_arg, checked))
        ELSE IF ~PathExists(m, SourcePath(environment_arg))
             THEN Result(m, Exc("InvalidProjectError"), PyNone,
                         Did("link_local_settings", environment_arg, Exc("InvalidProjectError")))
             ELSE CHOOSE done \in
                      {Result(made.m, made.exc, PyNone, Did("link_local_settings", environment_arg, made.exc)) :
                          made \in {CreateLink(RemoveOldFiles(m), environment_arg)}} : TRUE

\* link_local_settings(self, environment)
link_local_settings(m, environment_arg) ==
    LET checked == check_settings_imports_local_settings(m)
        \* self.environment = environment, reached only when nothing raised
        Record(made) ==
            IF ~Returned(made)
            THEN Result(made.m, made.exc, PyNone, Did("link_local_settings", environment_arg, made.exc))
            ELSE Result([made.m EXCEPT !.environment = environment_arg],
                        NoExc, PyNone, Did("link_local_settings", environment_arg, NoExc))
    IN  IF checked # NoExc
        THEN Result(m, checked, PyNone, Did("link_local_settings", environment_arg, checked))
        ELSE IF ~PathExists(m, SourcePath(environment_arg))
             THEN Result(m, Exc("InvalidProjectError"), PyNone,
                         Did("link_local_settings", environment_arg, Exc("InvalidProjectError")))
             ELSE CHOOSE done \in
                      {Record(made) :
                          made \in {CreateLink(RemoveOldFiles(m), environment_arg)}} : TRUE

\* os.readlink(local_settings): Python 2 has no os.readlink on nt, and
\* elsewhere it fails on an entry that is no symbolic link.
OsReadlink(m) ==
    LET e == Lstat(m, TargetPath)
    IN  IF os_name = "nt"
        THEN Result(m, Exc("AttributeError"), PyNone, <<>>)
        ELSE IF e.kind = "symlink"
             THEN Result(m, NoExc, PyStr(e.target), <<>>)
             ELSE Result(m, Exc("OSError"), PyNone, <<>>)

\* infer_environment(self)
infer_environment(m) ==
    IF PathExists(m, TargetPath)
    THEN LET link == OsReadlink(m)
         IN  IF ~Returned(link)
             THEN Result(m, link.exc, PyNone, Did("infer_environment", PyNone, link.exc))
             ELSE LET env == PyStr(EnvironmentOfLink(link.ret.s))
                  IN  Result([m EXCEPT !.environment = env], NoExc, env,
                             Did("infer_environment", PyNone, NoExc))
    ELSE Result(m, Exc("TasksError"), PyNone, Did("infer_environment", PyNone, Exc("TasksError")))

----------------------------------------------------------------------------
(* AppManager: deploy and quick_test                                       *)

\* What "git submodule update --init" can do: there is no .gitmodules file,
\* it exits 0, or it exits with another code.
GitOutcomes == {"no_gitmodules", "ok", "failed"}

\* update_git_submodules(self)
update_git_submodules(m, git) ==
    IF git = "failed"
    THEN Result(m, Exc("CalledProcessError"), PyNone, Did("update_git_submodules", PyNone, Exc("CalledProcessError")))
    ELSE Result(m, NoExc, PyNone, Did("update_git_submodules", PyNone, NoExc))

\* What random.choice can make of SECRET_KEY and DB_PASSWORD, as the text
\* written to private_settings.py.
SecretKeys == {"secrets a", "secrets b"}

\* The mutation that writes the file whether or not it is there.
create_private_settings_overwrites(m, secret_key) ==
    Result([m EXCEPT !.private_settings = secret_key], NoExc, PyNone,
           Did("create_private_settings", PyNone, NoExc))

\* create_private_settings(self); secret_key is what random.choice draws
\* when the file is written.
create_private_settings(m, secret_key) ==
    IF m.private_settings = "absent"
    THEN Result([m EXCEPT !.private_settings = secret_key], NoExc, PyNone,
                Did("create_private_settings", PyNone, NoExc))
    ELSE Result(m, NoExc, PyNone, Did("create_private_settings", PyNone, NoExc))

\* What the database and manage.py collaborators can do to update_db and
\* run_tests: succeed, raise a TasksError (ShellCommandError with the
\* command's return code) or raise another exception.
CollaboratorOutcomes == {NoExc, Exc("ShellCommandError"), Exc("AttributeError")}

\* update_db(self), by its outcome
update_db(m, db) == Result(m, db, PyNone, Did("update_db", PyNone, db))

\* clean_db(self), by its outcome
clean_db(m, db) == Result(m, db, PyNone, Did("clean_db", PyNone, db))

\* run_tests(self, *extra_args), by its outcome
run_tests(m, tests) == Result(m, tests, PyNone, Did("run_tests", PyNone, tests))

\* manage_py_jenkins(self), by its outcome
manage_py_jenkins(m, tests) == Result(m, tests, PyNone, Did("manage_py_jenkins", PyNone, tests))

\* The mutation that calls the hook without asking whether there is one.
post_deploy_unconditional(m, has_post_deploy) ==
    Result(m, NoExc, PyNone,
           Did("hasattr_post_deploy", PyBool(has_post_deploy), NoExc)
               \o Did("post_deploy", m.environment, NoExc))

\* if hasattr(self.localtasks_module, 'post_deploy'):
\*     self.localtasks_module.post_deploy(self.environment)
post_deploy(m, has_post_deploy) ==
    IF has_post_deploy
    THEN Result(m, NoExc, PyNone,
                Did("hasattr_post_deploy", PyBool(TRUE), NoExc)
                    \o Did("post_deploy", m.environment, NoExc))
    ELSE Result(m, NoExc, PyNone, Did("hasattr_post_deploy", PyBool(FALSE), NoExc))

\* The largest exit code a command ends with.
MaxExitCode == 2

\* What running a command can do: it ends with an exit code, or it cannot
\* be started.
CommandOutcomes ==
    {[kind |-> "exit", code |-> c] : c \in 0..MaxExitCode} \cup {[kind |-> "not started"]}

Exited(code) == [kind |-> "exit", code |-> code]

\* call_command(argv, **kwargs), that is subprocess.call: the exit code, or
\* the OSError of a command that cannot be started (WindowsError on nt).
call_command(m, command, outcome) ==
    IF outcome.kind = "exit"
    THEN Result(m, NoExc, PyInt(outcome.code), Did(command, PyInt(outcome.code), NoExc))
    ELSE LET raised == IF os_name = "nt" THEN Exc("WindowsError") ELSE Exc("OSError")
         IN  Result(m, raised, PyNone, Did(command, PyNone, raised))

\* call_wrapper(argv, **kwargs): logs the command and returns what
\* call_command returns.
call_wrapper(m, command, outcome) == call_command(m, command, outcome)

\* check_call_wrapper(argv, accepted_returncode_list=[0], **kwargs)
check_call_wrapper(m, command, outcome, accepted_returncode_list) ==
    LET called == call_wrapper(m, command, outcome)
    IN  IF called.exc = Exc("WindowsError")
        THEN Result(m, Exc("CalledProcessError"), PyNone, called.steps)
        ELSE IF ~Returned(called)
        THEN called
        ELSE IF called.ret.n \notin accepted_returncode_list
        THEN Result(m, Exc("CalledProcessError"), PyNone, called.steps)
        ELSE Result(m, NoExc, PyNone, called.steps)

\* rm_all_pyc(vcs_root_dir): call_wrapper('find . -type f -name \*.pyc
\* -exec rm {} \;', shell=True, cwd=vcs_root_dir), the exit code dropped.
\* The compiled settings are gone when find ended with 0.
rm_all_pyc(m, find) ==
    LET called == call_wrapper(m, "find", find)
        swept == IF find = Exited(0) THEN [m EXCEPT !.local_settings_pyc = FALSE] ELSE m
    IN  IF ~Returned(called)
        THEN Result(m, called.exc, PyNone,
                    called.steps \o Did("rm_all_pyc", PyNone, called.exc))
        ELSE Result(swept, NoExc, PyNone, called.steps \o Did("rm_all_pyc", PyNone, NoExc))

\* patch_south(self): grep -q tells whether the patch is applied, patch
\* applies it when grep did not end with 0.
patch_south(m, grep, patch) ==
    LET patch_applied == call_wrapper(m, "grep", grep)
    IN  IF ~Returned(patch_applied)
        THEN patch_applied
        ELSE IF patch_applied.ret # PyInt(0)
        THEN CHOOSE done \in
                 {Result(m, checked.exc, PyNone, patch_applied.steps \o checked.steps) :
                     checked \in {check_call_wrapper(m, "patch", patch, {0})}} : TRUE
        ELSE Result(m, NoExc, PyNone, patch_applied.steps)

\* manage_py(self, args, cwd=None). supplied says whether project_settings
\* has a manage_py of its own: then the string shadows the method and the
\* call self.manage_py(...) is a call of a str. Otherwise hasattr(self,
\* 'manage_py') in __init__ is true of the method, the path is never
\* stored, manage_cmd holds the bound method, and ' '.join(manage_cmd)
\* raises before Popen is reached.
manage_py(m, supplied, popen) ==
    LET manage_cmd == <<"str", IF supplied THEN "str" ELSE "instancemethod">>
    IN  IF supplied
        THEN Result(m, Exc("TypeError"), PyNone, <<>>)
        ELSE IF \E i \in 1..Len(manage_cmd) : manage_cmd[i] # "str"
        THEN Result(m, Exc("TypeError"), PyNone, <<>>)
        ELSE IF popen.kind # "exit"
        THEN Result(m, Exc("OSError"), PyNone, Did("manage.py", PyNone, Exc("OSError")))
        ELSE IF popen.code # 0
        THEN Result(m, Exc("ShellCommandError"), PyNone,
                    Did("manage.py", PyInt(popen.code), Exc("ShellCommandError")))
        ELSE Result(m, NoExc, PyNone, Did("manage.py", PyInt(0), NoExc))

\* install_django_jenkins(self): pip install through check_call_wrapper
install_django_jenkins(m, pip) ==
    IF pip = "failed"
    THEN Result(m, Exc("CalledProcessError"), PyNone, Did("install_django_jenkins", PyNone, Exc("CalledProcessError")))
    ELSE Result(m, NoExc, PyNone, Did("install_django_jenkins", PyNone, NoExc))

Jenkins == <<"j", "e", "n", "k", "i", "n", "s">>

\* What one task invocation draws from its collaborators.
Outcomes ==
    [git : GitOutcomes, db : CollaboratorOutcomes, tests : CollaboratorOutcomes,
     has_post_deploy : BOOLEAN, secret_key : SecretKeys]

AllSucceed ==
    [git |-> "ok", db |-> NoExc, tests |-> NoExc, has_post_deploy |-> TRUE,
     secret_key |-> "secrets a"]

\* One statement "self.<step>" of deploy, quick_test or run_jenkins.
Step(m, step, outs) ==
    CASE step = "update_git_submodules()" -> update_git_submodules(m, outs.git)
      [] step = "create_private_settings()" -> create_private_settings(m, outs.secret_key)
      [] step = "link_local_settings(self.environment)" ->
            link_local_settings(m, m.environment)
      [] step = "link_local_settings('dev_fasttests')" ->
            link_local_settings(m, PyStr(DevFasttests))
      [] step = "link_local_settings('jenkins')" -> link_local_settings(m, PyStr(Jenkins))
      [] step = "update_db()" -> update_db(m, outs.db)
      [] step = "clean_db()" -> clean_db(m, outs.db)
      [] step = "run_tests(*extra_args)" -> run_tests(m, outs.tests)
      [] step = "manage_py_jenkins()" -> manage_py_jenkins(m, outs.tests)
      [] step = "post_deploy(self.environment)" -> post_deploy(m, outs.has_post_deploy)
      [] step = "rm_all_pyc(self.vcs_root_dir)" -> rm_all_pyc(m, Exited(0))
      [] step = "install_django_jenkins()" -> install_django_jenkins(m, outs.git)

RECURSIVE RunSteps(_, _, _)
\* The statements steps run one after the other on what r left, up to the
\* first that raises.
RunSteps(r, steps, outs) ==
    IF steps = <<>>
    THEN r
    ELSE CHOOSE done \in
             {IF ~Returned(before)
              THEN before
              ELSE RunSteps(CHOOSE joined \in
                                {Result(nxt.m, nxt.exc, nxt.ret, before.steps \o nxt.steps) :
                                    nxt \in {Step(before.m, Head(steps), outs)}} : TRUE,
                            Tail(steps), outs) :
                 before \in {r}} : TRUE

\* The head of deploy: "if environment: ... else: self.infer_environment()".
resolve_environment(m, environment_arg) ==
    IF Truthy(environment_arg)
    THEN Result([m EXCEPT !.environment = environment_arg], NoExc, PyNone, <<>>)
    ELSE infer_environment(m)

\* The mutation that links the environment before it creates the private
\* settings.
deploy_links_first(m, environment_arg, git, db, has_post_deploy, secret_key) ==
    RunSteps(resolve_environment(m, environment_arg),
             <<"update_git_submodules()",
               "link_local_settings(self.environment)",
               "create_private_settings()",
               "update_db()",
               "post_deploy(self.environment)">>,
             [git |-> git, db |-> db, tests |-> NoExc, has_post_deploy |-> has_post_deploy,
              secret_key |-> secret_key])

\* The mutation that puts the checkout back as it was when a step fails.
deploy_rolls_back(m, environment_arg, git, db, has_post_deploy, secret_key) ==
    CHOOSE out \in
        {IF Returned(done) THEN done ELSE Result(m, done.exc, done.ret, done.steps) :
            done \in {RunSteps(resolve_environment(m, environment_arg),
                               <<"update_git_submodules()",
                                 "create_private_settings()",
                                 "link_local_settings(self.environment)",
                                 "update_db()",
                                 "post_deploy(self.environment)">>,
                               [git |-> git, db |-> db, tests |-> NoExc,
                                has_post_deploy |-> has_post_deploy,
                                secret_key |-> secret_key])}} : TRUE

\* deploy(self, environment=None)
deploy(m, environment_arg, git, db, has_post_deploy, secret_key) ==
    RunSteps(resolve_environment(m, environment_arg),
             <<"update_git_submodules()",
               "create_private_settings()",
               "link_local_settings(self.environment)",
               "update_db()",
               "post_deploy(self.environment)">>,
             [git |-> git, db |-> db, tests |-> NoExc, has_post_deploy |-> has_post_deploy,
              secret_key |-> secret_key])

\* quick_test(self, *extra_args)
quick_test(m, db, tests) ==
    LET outs == [AllSucceed EXCEPT !.db = db, !.tests = tests]
        \* finally: self.link_local_settings(original_environment)
        Finally(body, original_environment) ==
            CHOOSE done \in
                {Result(restored.m,
                        IF ~Returned(restored) THEN restored.exc ELSE body.exc,
                        PyNone, body.steps \o restored.steps) :
                    restored \in {link_local_settings(body.m, original_environment)}} : TRUE
        Try(inferred) ==
            IF ~Returned(inferred)
            THEN inferred
            ELSE CHOOSE done \in
                     {Finally(body, inferred.ret) :
                         body \in {RunSteps(inferred,
                                            <<"link_local_settings('dev_fasttests')",
                                              "update_db()",
                                              "run_tests(*extra_args)">>,
                                            outs)}} : TRUE
    IN  CHOOSE done \in {Try(inferred) : inferred \in {infer_environment(m)}} : TRUE

\* run_jenkins(self)
run_jenkins(m, outs) ==
    RunSteps(Result(m, NoExc, PyNone, <<>>),
             <<"rm_all_pyc(self.vcs_root_dir)",
               "install_django_jenkins()",
               "create_private_settings()",
               "link_local_settings('jenkins')",
               "clean_db()",
               "update_db()",
               "manage_py_jenkins()">>,
             outs)

----------------------------------------------------------------------------
(* tasks.py: the argument mini-language                                    *)

\* The first index of s holding ch, 0 when there is none.
IndexOf(s, ch) ==
    IF \E i \in 1..Len(s) : s[i] = ch
    THEN CHOOSE i \in 1..Len(s) : s[i] = ch /\ \A j \in 1..(i-1) : s[j] # ch
    ELSE 0

RECURSIVE SplitOn(_, _)
\* s.split(ch)
SplitOn(s, ch) ==
    LET i == IndexOf(s, ch)
    IN  IF i = 0
        THEN <<s>>
        ELSE <<SubSeq(s, 1, i - 1)>> \o SplitOn(SubSeq(s, i + 1, Len(s)), ch)

UpperCase ==
    <<"A", "B", "C", "D", "E", "F", "G", "H", "I", "J", "K", "L", "M",
      "N", "O", "P", "Q", "R", "S", "T", "U", "V", "W", "X", "Y", "Z">>

LowerCase ==
    <<"a", "b", "c", "d", "e", "f", "g", "h", "i", "j", "k", "l", "m",
      "n", "o", "p", "q", "r", "s", "t", "u", "v", "w", "x", "y", "z">>

\* s.lower()
StrLower(s) ==
    [i \in 1..Len(s) |->
        IF \E k \in 1..26 : UpperCase[k] = s[i]
        THEN LowerCase[CHOOSE k \in 1..26 : UpperCase[k] = s[i]]
        ELSE s[i]]

\* s.isdigit()
IsDigit(s) == Len(s) > 0 /\ \A i \in 1..Len(s) : \E k \in 1..10 : Digits[k] = s[i]

RECURSIVE StrToInt(_)
\* int(s) for a string of digits
StrToInt(s) ==
    IF Len(s) = 0 THEN 0
    ELSE 10 * StrToInt(SubSeq(s, 1, Len(s) - 1)) + DigitValue(s[Len(s)])

\* The mutation that takes a leading digit for a number.
convert_argument_digit_prefix(value) ==
    IF StrLower(value) = <<"t", "r", "u", "e">> THEN PyBool(TRUE)
    ELSE IF StrLower(value) = <<"f", "a", "l", "s", "e">> THEN PyBool(FALSE)
    ELSE IF Len(value) > 0 /\ IsDigit(<<value[1]>>) THEN PyInt(DigitValue(value[1]))
    ELSE PyStr(value)

\* convert_argument(value)
convert_argument(value) ==
    IF StrLower(value) = <<"t", "r", "u", "e">> THEN PyBool(TRUE)
    ELSE IF StrLower(value) = <<"f", "a", "l", "s", "e">> THEN PyBool(FALSE)
    ELSE IF IsDigit(value) THEN PyInt(StrToInt(value))
    ELSE PyStr(value)

RECURSIVE KwargsDict_rsplit(_)
\* The mutation that splits a keyword token on its last '='.
KwargsDict_rsplit(kwargs) ==
    IF Len(kwargs) = 0
    THEN <<>>
    ELSE LET kwarg == kwargs[Len(kwargs)]
             i == LastIndexOf(kwarg, "=")
             kw == SubSeq(kwarg, 1, i - 1)
             value == SubSeq(kwarg, i + 1, Len(kwarg))
         IN  (kw :> convert_argument(value))
                 @@ KwargsDict_rsplit(SubSeq(kwargs, 1, Len(kwargs) - 1))

RECURSIVE KwargsDict(_)
\* The dict built by "for kwarg in kwargs: kw, value = kwarg.split('=', 1);
\* kwargs_dict[kw] = convert_argument(value)": a later key overwrites.
KwargsDict(kwargs) ==
    IF Len(kwargs) = 0
    THEN <<>>
    ELSE LET kwarg == kwargs[Len(kwargs)]
             i == IndexOf(kwarg, "=")
             kw == SubSeq(kwarg, 1, i - 1)
             value == SubSeq(kwarg, i + 1, Len(kwarg))
         IN  (kw :> convert_argument(value)) @@ KwargsDict(SubSeq(kwargs, 1, Len(kwargs) - 1))

\* The mutation that takes a name without ':' only up to its first '='.
convert_task_bits_cuts_name(task_bits) ==
    IF IndexOf(task_bits, ":") = 0
    THEN [fname |-> IF IndexOf(task_bits, "=") = 0 THEN task_bits
                    ELSE SubSeq(task_bits, 1, IndexOf(task_bits, "=") - 1),
          pos_args |-> <<>>, kwargs |-> <<>>]
    ELSE LET i == IndexOf(task_bits, ":")
             args_list == SplitOn(SubSeq(task_bits, i + 1, Len(task_bits)), ",")
             NoEquals(arg) == IndexOf(arg, "=") = 0
             HasEquals(arg) == IndexOf(arg, "=") > 0
             positional == SelectSeq(args_list, NoEquals)
         IN  [fname |-> SubSeq(task_bits, 1, i - 1),
              pos_args |-> [k \in 1..Len(positional) |-> convert_argument(positional[k])],
              kwargs |-> KwargsDict(SelectSeq(args_list, HasEquals))]

\* The mutation that leaves out the empty segments of the argument list.
convert_task_bits_drops_empty(task_bits) ==
    IF IndexOf(task_bits, ":") = 0
    THEN [fname |-> task_bits, pos_args |-> <<>>, kwargs |-> <<>>]
    ELSE LET i == IndexOf(task_bits, ":")
             args_list == SplitOn(SubSeq(task_bits, i + 1, Len(task_bits)), ",")
             NoEquals(arg) == IndexOf(arg, "=") = 0 /\ Len(arg) > 0
             HasEquals(arg) == IndexOf(arg, "=") > 0
             positional == SelectSeq(args_list, NoEquals)
         IN  [fname |-> SubSeq(task_bits, 1, i - 1),
              pos_args |-> [k \in 1..Len(positional) |-> convert_argument(positional[k])],
              kwargs |-> KwargsDict(SelectSeq(args_list, HasEquals))]

\* convert_task_bits(task_bits)
convert_task_bits(task_bits) ==
    IF IndexOf(task_bits, ":") = 0
    THEN [fname |-> task_bits, pos_args |-> <<>>, kwargs |-> <<>>]
    ELSE LET i == IndexOf(task_bits, ":")
             task == SubSeq(task_bits, 1, i - 1)
             args == SubSeq(task_bits, i + 1, Len(task_bits))
             args_list == SplitOn(args, ",")
             NoEquals(arg) == IndexOf(arg, "=") = 0
             HasEquals(arg) == IndexOf(arg, "=") > 0
             positional == SelectSeq(args_list, NoEquals)
         IN  [fname |-> task,
              pos_args |-> [k \in 1..Len(positional) |-> convert_argument(positional[k])],
              kwargs |-> KwargsDict(SelectSeq(args_list, HasEquals))]

----------------------------------------------------------------------------
(* The task registry                                                       *)

T_deploy == <<"d", "e", "p", "l", "o", "y">>

T_create_private_settings == <<"c", "r", "e", "a", "t", "e", "_", "p", "r", "i", "v", "a", "t", "e", "_", "s", "e", "t", "t", "i", "n", "g", "s">>

T_link_local_settings == <<"l", "i", "n", "k", "_", "l", "o", "c", "a", "l", "_", "s", "e", "t", "t", "i", "n", "g", "s">>

T_update_git_submodules == <<"u", "p", "d", "a", "t", "e", "_", "g", "i", "t", "_", "s", "u", "b", "m", "o", "d", "u", "l", "e", "s">>

T_create_test_db == <<"c", "r", "e", "a", "t", "e", "_", "t", "e", "s", "t", "_", "d", "b">>

T_clean_db == <<"c", "l", "e", "a", "n", "_", "d", "b">>

T_update_db == <<"u", "p", "d", "a", "t", "e", "_", "d", "b">>

T_quick_test == <<"q", "u", "i", "c", "k", "_", "t", "e", "s", "t">>

T_run_tests == <<"r", "u", "n", "_", "t", "e", "s", "t", "s">>

T_run_jenkins == <<"r", "u", "n", "_", "j", "e", "n", "k", "i", "n", "s">>

T_dump_db == <<"d", "u", "m", "p", "_", "d", "b">>

T_restore_db == <<"r", "e", "s", "t", "o", "r", "e", "_", "d", "b">>

T_setup_db_dumps == <<"s", "e", "t", "u", "p", "_", "d", "b", "_", "d", "u", "m", "p", "s">>

T_create_dbdump_cron_file == <<"c", "r", "e", "a", "t", "e", "_", "d", "b", "d", "u", "m", "p", "_", "c", "r", "o", "n", "_", "f", "i", "l", "e">>

T_collect_static == <<"c", "o", "l", "l", "e", "c", "t", "_", "s", "t", "a", "t", "i", "c">>

T_create_uploads_dir == <<"c", "r", "e", "a", "t", "e", "_", "u", "p", "l", "o", "a", "d", "s", "_", "d", "i", "r">>

T_patch_south == <<"p", "a", "t", "c", "h", "_", "s", "o", "u", "t", "h">>

\* AppManager.tasks
AppManagerTasks ==
    {T_deploy, T_create_private_settings, T_link_local_settings, T_update_git_submodules, T_create_test_db,
     T_clean_db, T_update_db, T_quick_test, T_run_tests, T_run_jenkins,
     T_dump_db, T_restore_db, T_setup_db_dumps, T_create_dbdump_cron_file}

\* DjangoManager.tasks
DjangoManagerTasks == AppManagerTasks \cup {T_collect_static, T_create_uploads_dir, T_patch_south}

\* The registered names DjangoManager has a method for: every one but
\* create_uploads_dir.
DjangoManagerMethods == DjangoManagerTasks \ {T_create_uploads_dir}

----------------------------------------------------------------------------
(* tasks.py: main and its task loop                                        *)

UpdateDbParameters ==
    {<<"s", "y", "n", "c", "d", "b">>,
     <<"d", "r", "o", "p", "_", "t", "e", "s", "t", "_", "d", "b">>,
     <<"f", "o", "r", "c", "e", "_", "u", "s", "e", "_", "m", "i", "g", "r", "a", "t", "i", "o", "n", "s">>,
     <<"d", "a", "t", "a", "b", "a", "s", "e">>}

KW_database == <<"d", "a", "t", "a", "b", "a", "s", "e">>

KW_environment == <<"e", "n", "v", "i", "r", "o", "n", "m", "e", "n", "t">>

\* A call whose arguments do not fit the method's signature.
BadCall(m) == Result(m, Exc("TypeError"), PyNone, <<>>)

\* f(*pos_args, **kwargs) for the method f = getattr(app_manager, fname)
invoke(m, fname, pos_args, kwargs, outs) ==
    CASE fname = T_deploy ->
            IF \/ Len(pos_args) > 1
               \/ ~(DOMAIN kwargs \subseteq {KW_environment})
               \/ (Len(pos_args) = 1 /\ DOMAIN kwargs # {})
            THEN BadCall(m)
            ELSE deploy(m,
                        IF Len(pos_args) = 1 THEN pos_args[1]
                        ELSE IF DOMAIN kwargs # {} THEN kwargs[KW_environment]
                        ELSE PyNone,
                        outs.git, outs.db, outs.has_post_deploy, outs.secret_key)
      [] fname = T_link_local_settings ->
            IF Len(pos_args) = 1 /\ DOMAIN kwargs = {}
            THEN link_local_settings(m, pos_args[1])
            ELSE IF Len(pos_args) = 0 /\ DOMAIN kwargs = {KW_environment}
                 THEN link_local_settings(m, kwargs[KW_environment])
                 ELSE BadCall(m)
      [] fname = T_quick_test ->
            IF DOMAIN kwargs # {} THEN BadCall(m) ELSE quick_test(m, outs.db, outs.tests)
      [] fname = T_create_private_settings ->
            IF Len(pos_args) > 0 \/ DOMAIN kwargs # {}
            THEN BadCall(m) ELSE create_private_settings(m, outs.secret_key)
      [] fname = T_update_git_submodules ->
            IF Len(pos_args) > 0 \/ DOMAIN kwargs # {}
            THEN BadCall(m) ELSE update_git_submodules(m, outs.git)
      [] fname = T_run_jenkins ->
            IF Len(pos_args) > 0 \/ DOMAIN kwargs # {}
            THEN BadCall(m) ELSE run_jenkins(m, outs)
      [] fname = T_update_db ->
            \* update_db(self, syncdb, drop_test_db, force_use_migrations, database)
            IF Len(pos_args) + Cardinality(DOMAIN kwargs) > 4
               \/ ~(DOMAIN kwargs \subseteq UpdateDbParameters)
            THEN BadCall(m) ELSE update_db(m, outs.db)
      [] fname = T_run_tests ->
            IF DOMAIN kwargs # {} THEN BadCall(m) ELSE run_tests(m, outs.tests)
      [] fname = T_clean_db ->
            IF Len(pos_args) > 1 \/ ~(DOMAIN kwargs \subseteq {KW_database})
            THEN BadCall(m) ELSE clean_db(m, outs.db)
      \* the tasks that only drive the database and manage.py collaborators
      [] OTHER -> Result(m, outs.db, PyNone, Did("collaborator", PyNone, outs.db))

\* main before it is called. trace lists what main went through ahead of
\* the task loop; invoked, printed and stderr list the tasks it called, the
\* names invalid_command printed and what it wrote to sys.stderr.
IdleRun ==
    [pc |-> "idle", index |-> 0, ret |-> PyNone, uncaught |-> NoExc,
     trace |-> <<>>, invoked |-> <<>>, printed |-> <<>>, stderr |-> <<>>]

\* What main goes through between its early returns and the task loop.
ManagerSetup == <<"setup_logging", "import project_settings", "get_application_manager">>

\* main at the head of its task loop.
LoopRun == [IdleRun EXCEPT !.pc = "loop", !.index = 1, !.trace = ManagerSetup]

\* main returns value ret.
ReturnFrom(r, ret) == [r EXCEPT !.pc = "returned", !.ret = ret]

\* An exception leaves main uncaught.
RaiseFrom(r, exc) == [r EXCEPT !.pc = "raised", !.uncaught = exc]

\* The mutation that carries on with the next token after an unknown name.
dispatch_one_skip_unknown(m, r, task_bits, outs) ==
    LET Called(bits, done) ==
            [r EXCEPT !.invoked = Append(@, [fname |-> bits.fname, exc |-> done.exc])]
        After(bits, done) ==
            IF Returned(done)
            THEN [m |-> done.m, run |-> [Called(bits, done) EXCEPT !.index = @ + 1]]
            ELSE [m |-> done.m,
                  run |-> ReturnFrom([Called(bits, done) EXCEPT
                                         !.stderr = Append(@, done.exc.cls)],
                                     ExitCodeOf(done.exc))]
        Turn(bits) ==
            IF bits.fname \notin DjangoManagerTasks
            THEN [m |-> m, run |-> [r EXCEPT !.printed = Append(@, bits.fname),
                                             !.index = @ + 1]]
            ELSE CHOOSE step \in
                     {After(bits, done) :
                         done \in {invoke(m, bits.fname, bits.pos_args, bits.kwargs,
                                          outs)}} : TRUE
    IN  CHOOSE step \in {Turn(bits) : bits \in {convert_task_bits(task_bits)}} : TRUE

\* The mutation that reports a failed task and carries on with the next.
dispatch_one_keep_going(m, r, task_bits, outs) ==
    LET Called(bits, done) ==
            [r EXCEPT !.invoked = Append(@, [fname |-> bits.fname, exc |-> done.exc])]
        After(bits, done) ==
            IF Returned(done)
            THEN [m |-> done.m, run |-> [Called(bits, done) EXCEPT !.index = @ + 1]]
            ELSE [m |-> done.m,
                  run |-> [Called(bits, done) EXCEPT !.stderr = Append(@, done.exc.cls),
                                                     !.index = @ + 1]]
        Turn(bits) ==
            IF bits.fname \notin DjangoManagerTasks
            THEN [m |-> m,
                  run |-> ReturnFrom([r EXCEPT !.printed = Append(@, bits.fname)], PyInt(2))]
            ELSE CHOOSE step \in
                     {After(bits, done) :
                         done \in {invoke(m, bits.fname, bits.pos_args, bits.kwargs,
                                          outs)}} : TRUE
    IN  CHOOSE step \in {Turn(bits) : bits \in {convert_task_bits(task_bits)}} : TRUE

\* One turn of "for arg in options['<tasks>']": parse the token, look the
\* name up in app_manager.tasks, call the method, catch a TasksError.
dispatch_one(m, r, task_bits, outs) ==
    LET Called(bits, done) ==
            [r EXCEPT !.invoked = Append(@, [fname |-> bits.fname, exc |-> done.exc])]
        \* f(*pos_args, **kwargs) has ended as done
        After(bits, done) ==
            IF Returned(done)
            THEN [m |-> done.m, run |-> [Called(bits, done) EXCEPT !.index = @ + 1]]
            ELSE IF IsTasksError(done.exc)
                 THEN \* print >>sys.stderr, e.msg; return e.exit_code
                      [m |-> done.m,
                       run |-> ReturnFrom([Called(bits, done) EXCEPT
                                              !.stderr = Append(@, done.exc.cls)],
                                          ExitCodeOf(done.exc))]
                 ELSE [m |-> done.m, run |-> RaiseFrom(Called(bits, done), done.exc)]
        Turn(bits) ==
            IF bits.fname \notin DjangoManagerTasks
            THEN \* invalid_command(fname); return 2
                 [m |-> m,
                  run |-> ReturnFrom([r EXCEPT !.printed = Append(@, bits.fname)], PyInt(2))]
            ELSE IF bits.fname \notin DjangoManagerMethods
                 THEN \* getattr(app_manager, fname) raises
                      [m |-> m, run |-> RaiseFrom(r, Exc("AttributeError"))]
                 ELSE CHOOSE step \in
                          {After(bits, done) :
                              done \in {invoke(m, bits.fname, bits.pos_args,
                                               bits.kwargs, outs)}} : TRUE
    IN  CHOOSE step \in {Turn(bits) : bits \in {convert_task_bits(task_bits)}} : TRUE

RECURSIVE run_tasks(_, _, _, _)
\* The whole loop over options['<tasks>']; falling off its end, main
\* returns None.
run_tasks(m, r, tasks, outs) ==
    IF r.pc # "loop"
    THEN [m |-> m, run |-> r]
    ELSE IF r.index > Len(tasks)
         THEN [m |-> m, run |-> ReturnFrom(r, PyNone)]
         ELSE CHOOSE done \in
                  {run_tasks(step.m, step.run, tasks, outs) :
                      step \in {dispatch_one(m, r, tasks[r.index], outs)}} : TRUE

\* get_application_manager(project_type, **kwargs) called with
\* extra_positional arguments after project_type: the exception, or NoExc.
get_application_manager(extra_positional) ==
    IF extra_positional > 0 THEN Exc("TypeError") ELSE NoExc

\* print_help_text(): the usage text, then the task list when
\* project_settings can be imported (the manager class is looked up, no
\* manager is constructed).
print_help_text(importable) ==
    IF importable
    THEN <<"print_help_text", "import project_settings", "get_application_manager_class">>
    ELSE <<"print_help_text", "import project_settings">>

\* sys.exit(main(sys.argv[1:])): the exit status of the process for what
\* main returned. None is status 0, an integer is itself.
sys_exit(ret) == IF ret = PyNone THEN PyInt(0) ELSE ret

\* The mutation that loads project_settings before it looks at the flags.
main_flags_checked_late(m, args, outs) ==
    IF args.help
    THEN [m |-> m,
          run |-> ReturnFrom([IdleRun EXCEPT !.trace = print_help_text(args.importable)],
                             PyInt(0))]
    ELSE IF args.task_description
    THEN [m |-> m,
          run |-> ReturnFrom([IdleRun EXCEPT !.trace = <<"describe_task">>], PyInt(0))]
    ELSE IF ~args.importable
    THEN [m |-> m,
          run |-> ReturnFrom([IdleRun EXCEPT !.trace = SubSeq(ManagerSetup, 1, 2)],
                             PyInt(1))]
    ELSE IF args.verbose /\ args.quiet
    THEN [m |-> m,
          run |-> ReturnFrom([IdleRun EXCEPT
                                 !.trace = SubSeq(ManagerSetup, 1, 2),
                                 !.stderr = <<"Cannot set both verbose and quiet">>],
                             PyInt(2))]
    ELSE [m |-> m, run |-> RaiseFrom([IdleRun EXCEPT !.trace = ManagerSetup],
                                     get_application_manager(5))]

\* The mutation that looks at --quiet and --verbose before --help.
main_help_checked_late(m, args, outs) ==
    IF args.verbose /\ args.quiet
    THEN [m |-> m,
          run |-> ReturnFrom([IdleRun EXCEPT !.stderr =
                                 <<"Cannot set both verbose and quiet">>], PyInt(2))]
    ELSE IF args.help
    THEN [m |-> m,
          run |-> ReturnFrom([IdleRun EXCEPT !.trace = print_help_text(args.importable)],
                             PyInt(0))]
    ELSE IF args.task_description
    THEN [m |-> m,
          run |-> ReturnFrom([IdleRun EXCEPT !.trace = <<"describe_task">>], PyInt(0))]
    ELSE IF ~args.importable
    THEN [m |-> m,
          run |-> ReturnFrom([IdleRun EXCEPT !.trace = SubSeq(ManagerSetup, 1, 2)],
                             PyInt(1))]
    ELSE [m |-> m, run |-> RaiseFrom([IdleRun EXCEPT !.trace = ManagerSetup],
                                     get_application_manager(5))]

\* main(argv)
main(m, args, outs) ==
    IF args.help
    THEN [m |-> m,
          run |-> ReturnFrom([IdleRun EXCEPT !.trace = print_help_text(args.importable)],
                             PyInt(0))]
    ELSE IF args.task_description
    THEN [m |-> m,
          run |-> ReturnFrom([IdleRun EXCEPT !.trace = <<"describe_task">>], PyInt(0))]
    ELSE IF args.verbose /\ args.quiet
    THEN [m |-> m,
          run |-> ReturnFrom([IdleRun EXCEPT !.stderr =
                                 <<"Cannot set both verbose and quiet">>], PyInt(2))]
    ELSE IF ~args.importable
    THEN \* import project_settings raises ImportError
         [m |-> m,
          run |-> ReturnFrom([IdleRun EXCEPT !.trace = SubSeq(ManagerSetup, 1, 2)],
                             PyInt(1))]
    ELSE \* get_application_manager(project_settings.project_type,
         \*     project_settings, localtasks, quiet, verbose, noinput)
         LET made == get_application_manager(5)
         IN  IF made # NoExc
             THEN [m |-> m, run |-> RaiseFrom([IdleRun EXCEPT !.trace = ManagerSetup], made)]
             ELSE run_tasks(m, LoopRun, args.tasks, outs)

----------------------------------------------------------------------------
(* The manager driven call by call, as the unit tests drive it             *)

\* The command line and its surroundings before main is called: the docopt
\* options main reads, whether project_settings can be imported, and the
\* <tasks> tokens.
NoArgv ==
    [help |-> FALSE, task_description |-> FALSE, quiet |-> FALSE, verbose |-> FALSE,
     importable |-> TRUE, tasks |-> <<>>]

NoCall == [op |-> "none", arg |-> PyNone, exc |-> NoExc, ret |-> PyNone, steps |-> <<>>]

Call(op, arg, r) == [op |-> op, arg |-> arg, exc |-> r.exc, ret |-> r.ret, steps |-> r.steps]

\* Platforms: os.name and, on nt, what the PyWin32 extensions offer.
Platforms ==
    {<<"posix", "missing">>, <<"nt", "missing">>, <<"nt", "symlink">>,
     <<"nt", "hardlink">>, <<"other", "missing">>}

\* Entries local_settings.py can start as: nothing, somebody's regular file,
\* or a link to a variant name (whether or not that variant exists).
InitialLocalSettings ==
    {Absent, RegularFile(Unrelated)} \cup {SymLink(VariantName(PyStr(E))) : E \in Envs}

Init ==
    /\ \E pf \in Platforms : os_name = pf[1] /\ win32file = pf[2]
    /\ settings_py \in {"absent", "no_import", "imports"}
    /\ \E present \in SUBSET Envs :
          variants = [E \in Envs |-> IF E \in present THEN RegularFile(E) ELSE Absent]
    /\ local_settings \in InitialLocalSettings
    /\ local_settings_pyc \in BOOLEAN
    /\ private_settings \in {"absent", "preexisting"}
    /\ environment = PyNone
    /\ last = NoCall
    /\ prev_link = PyNone
    /\ argv = NoArgv
    /\ run = IdleRun

\* The call r of operation op with argument arg ends: its machine becomes
\* the state.
Finish(op, arg, r) ==
    /\ settings_py' = r.m.settings_py
    /\ variants' = r.m.variants
    /\ local_settings' = r.m.local_settings
    /\ local_settings_pyc' = r.m.local_settings_pyc
    /\ private_settings' = r.m.private_settings
    /\ environment' = r.m.environment
    /\ last' = Call(op, arg, r)
    /\ prev_link' = IF last.op = "link_local_settings" /\ last.exc = NoExc
                    THEN last.arg ELSE PyNone
    /\ UNCHANGED <<os_name, win32file, argv, run>>

LinkLocalSettings ==
    \E E \in Envs :
        \E done \in {link_local_settings(Machine, PyStr(E))} :
            Finish("link_local_settings", PyStr(E), done)

InferEnvironment ==
    \E done \in {infer_environment(Machine)} :
        Finish("infer_environment", PyNone, done)

\* random.choice is called only where private_settings.py is written.
SecretKeysDrawn ==
    IF private_settings = "absent" THEN SecretKeys ELSE {AllSucceed.secret_key}

CreatePrivateSettings ==
    \E secret_key \in SecretKeysDrawn :
        \E done \in {create_private_settings(Machine, secret_key)} :
            Finish("create_private_settings", PyNone, done)

\* What deploy is called with: nothing ("deploy"), an environment name
\* ("deploy:dev") or the integer 0 ("deploy:0", as convert_argument makes
\* it).
DeployArgs == {PyNone, PyInt(0)} \cup {PyStr(E) : E \in Envs}

Range(seq) == {seq[i] : i \in 1..Len(seq)}

\* The collaborators' outcomes are drawn only for the steps a call reaches.
Deploy ==
    \E arg \in DeployArgs, git \in GitOutcomes :
        \E probe \in {deploy(Machine, arg, git, NoExc, FALSE, AllSucceed.secret_key)} :
            IF "create_private_settings" \notin Range(StepNames(probe.steps))
            THEN Finish("deploy", arg, probe)
            ELSE \E secret_key \in SecretKeysDrawn :
                   \E db \in (IF "update_db" \in Range(StepNames(probe.steps))
                              THEN CollaboratorOutcomes ELSE {NoExc}) :
                      \E has_post_deploy \in (IF "hasattr_post_deploy" \in
                                                  Range(StepNames(probe.steps)) /\ db = NoExc
                                              THEN BOOLEAN ELSE {FALSE}) :
                         \E done \in {deploy(Machine, arg, git, db, has_post_deploy,
                                              secret_key)} :
                            Finish("deploy", arg, done)

QuickTest ==
    \E probe \in {quick_test(Machine, NoExc, NoExc)} :
        IF "update_db" \notin Range(StepNames(probe.steps))
        THEN Finish("quick_test", PyNone, probe)
        ELSE \E db \in CollaboratorOutcomes :
               \E tests \in (IF db = NoExc THEN CollaboratorOutcomes ELSE {NoExc}) :
                  \E done \in {quick_test(Machine, db, tests)} :
                     Finish("quick_test", PyNone, done)

\* The linker on its own: link_local_settings and infer_environment.
Next ==
    \/ LinkLocalSettings
    \/ InferEnvironment

Spec == Init /\ [][Next]_vars

\* The linker together with the operations that call it.
DeployNext ==
    \/ LinkLocalSettings
    \/ InferEnvironment
    \/ CreatePrivateSettings
    \/ Deploy
    \/ QuickTest

\* The checkouts the operations are run in: any of Init's in which the two
\* dev variants come as a pair (both files there or neither).
DeployInit ==
    /\ Init
    /\ variants[Dev] = Absent <=> variants[DevFasttests] = Absent

DeploySpec == DeployInit /\ [][DeployNext]_vars

\* The same, started where local_settings.py is absent or links to a
\* variant that exists.
InitLinkedOrAbsent ==
    /\ Init
    /\ \/ local_settings = Absent
       \/ /\ local_settings.kind = "symlink"
          /\ PathExists(Machine, TargetPath)

LinkedStartSpec == InitLinkedOrAbsent /\ [][DeployNext]_vars

----------------------------------------------------------------------------
(* main driven from the command line                                       *)

\* The longest command line, in task tokens.
MaxTasks == 2

\* Task tokens of a command line.
CmdTokens ==
    {<<"d", "e", "p", "l", "o", "y", ":", "d", "e", "v">>,
     <<"l", "i", "n", "k", "_", "l", "o", "c", "a", "l", "_", "s", "e", "t", "t", "i", "n", "g", "s", ":", "d", "e", "v">>,
     <<"q", "u", "i", "c", "k", "_", "t", "e", "s", "t">>,
     <<"u", "p", "d", "a", "t", "e", "_", "d", "b">>,
     <<"c", "r", "e", "a", "t", "e", "_", "p", "r", "i", "v", "a", "t", "e", "_", "s", "e", "t", "t", "i", "n", "g", "s">>,
     <<"c", "r", "e", "a", "t", "e", "_", "u", "p", "l", "o", "a", "d", "s", "_", "d", "i", "r">>,
     <<"b", "o", "g", "u", "s">>}

CmdLines == UNION {[1..n -> CmdTokens] : n \in 1..MaxTasks}

\* What the collaborators do during one task.
TaskOutcomes ==
    {AllSucceed,
     [AllSucceed EXCEPT !.db = Exc("ShellCommandError")],
     [AllSucceed EXCEPT !.db = Exc("AttributeError")],
     [AllSucceed EXCEPT !.tests = Exc("ShellCommandError")],
     [AllSucceed EXCEPT !.git = "failed"]}

\* The checkouts main is run in.
CheckoutInit ==
    /\ \E pf \in {<<"posix", "missing">>, <<"nt", "missing">>} :
          os_name = pf[1] /\ win32file = pf[2]
    /\ settings_py \in {"no_import", "imports"}
    /\ \E present \in {{Dev, DevFasttests}, {DevFasttests}} :
          variants = [E \in Envs |-> IF E \in present THEN RegularFile(E) ELSE Absent]
    /\ local_settings \in {Absent, SymLink(VariantName(PyStr(Dev)))}
    /\ local_settings_pyc = FALSE
    /\ private_settings = "absent"
    /\ environment = PyNone
    /\ last = NoCall
    /\ prev_link = PyNone

\* The machine m becomes the state.
Become(m) ==
    /\ settings_py' = m.settings_py
    /\ variants' = m.variants
    /\ local_settings' = m.local_settings
    /\ local_settings_pyc' = m.local_settings_pyc
    /\ private_settings' = m.private_settings
    /\ environment' = m.environment
    /\ UNCHANGED <<os_name, win32file, last, prev_link>>

MainInit ==
    /\ CheckoutInit
    /\ argv = NoArgv
    /\ run = IdleRun

\* One whole call of main(argv).
MainCall ==
    /\ run.pc = "idle"
    /\ \E args \in [help : BOOLEAN, task_description : BOOLEAN, quiet : BOOLEAN,
                    verbose : BOOLEAN, importable : BOOLEAN,
                    tasks : CmdLines \cup {<<>>}],
          outs \in TaskOutcomes :
          \* "tasks.py [options] <tasks>..." or "tasks.py -h | --help"
          /\ args.tasks = <<>> => args.help
          /\ \E done \in {main(Machine, args, outs)} :
              /\ argv' = args
              /\ run' = done.run
              /\ Become(done.m)

MainNext == MainCall

MainSpec == MainInit /\ [][MainNext]_vars

\* main's task loop taken one turn at a time, entered with an application
\* manager constructed the way the unit tests construct it.
DispatchInit ==
    /\ CheckoutInit
    /\ \E tasks \in CmdLines : argv = [NoArgv EXCEPT !.tasks = tasks]
    /\ run = LoopRun

DispatchTask ==
    /\ run.pc = "loop"
    /\ run.index <= Len(argv.tasks)
    /\ \E outs \in TaskOutcomes :
          \E step \in {dispatch_one(Machine, run, argv.tasks[run.index], outs)} :
              /\ run' = step.run
              /\ Become(step.m)
    /\ UNCHANGED argv

\* The loop runs out of tokens and main returns None.
DispatchReturn ==
    /\ run.pc = "loop"
    /\ run.index > Len(argv.tasks)
    /\ run' = ReturnFrom(run, PyNone)
    /\ UNCHANGED <<fsvars, argv>>

DispatchNext ==
    \/ DispatchTask
    \/ DispatchReturn

DispatchSpec == DispatchInit /\ [][DispatchNext]_vars

----------------------------------------------------------------------------
(* convert_task_bits applied to one task token                             *)

\* The longest task token, in characters.
MaxTokenLen == 5

\* The characters of a task token: the three separators, a letter, an
\* upper-case letter and a digit.
TokenChars == {":", ",", "=", "a", "T", "1"}

\* The task tokens, the empty one included.
Tokens == UNION {[1..n -> TokenChars] : n \in 0..MaxTokenLen}

\* One token is on the command line and nothing has been called.
ParseInit ==
    /\ os_name = "posix"
    /\ win32file = "missing"
    /\ settings_py = "imports"
    /\ variants = [E \in Envs |-> RegularFile(E)]
    /\ local_settings = Absent
    /\ local_settings_pyc = FALSE
    /\ private_settings = "absent"
    /\ environment = PyNone
    /\ last = NoCall
    /\ prev_link = PyNone
    /\ \E task_bits \in Tokens : argv = [NoArgv EXCEPT !.tasks = <<task_bits>>]
    /\ run = IdleRun

\* fname, pos_args, kwargs = convert_task_bits(arg)
ConvertTaskBits ==
    /\ last = NoCall
    /\ \E bits \in {convert_task_bits(argv.tasks[1])} :
          last' = [op |-> "convert_task_bits", arg |-> PyStr(argv.tasks[1]),
                   exc |-> NoExc, ret |-> bits, steps |-> <<>>]
    /\ UNCHANGED <<os_name, win32file, settings_py, variants, local_settings,
                   local_settings_pyc, private_settings, environment, prev_link,
                   argv, run>>

ParseNext == ConvertTaskBits

ParseSpec == ParseInit /\ [][ParseNext]_vars

----------------------------------------------------------------------------
(* The subprocess wrappers called one at a time                            *)

\* The accepted_returncode_list arguments of check_call_wrapper.
AcceptedLists == {{0}, {0, 1}}

PyList(items) == [t |-> "list", items |-> items]

\* A manager on any platform, nothing called yet.
WrapperInit ==
    /\ Init
    /\ settings_py = "imports"
    /\ variants = [E \in Envs |-> RegularFile(E)]
    /\ local_settings = Absent
    /\ private_settings = "absent"

CallWrapper ==
    \E outcome \in CommandOutcomes :
        \E r \in {call_wrapper(Machine, "command", outcome)} :
            Finish("call_wrapper", PyNone, r)

CheckCallWrapper ==
    \E outcome \in CommandOutcomes, accepted \in AcceptedLists :
        \E r \in {check_call_wrapper(Machine, "command", outcome, accepted)} :
            Finish("check_call_wrapper", PyList(accepted), r)

RmAllPyc ==
    \E find \in CommandOutcomes :
        \E r \in {rm_all_pyc(Machine, find)} : Finish("rm_all_pyc", PyNone, r)

PatchSouth ==
    \E grep \in CommandOutcomes, patch \in CommandOutcomes :
        \E r \in {patch_south(Machine, grep, patch)} : Finish("patch_south", PyNone, r)

ManagePy ==
    \E supplied \in BOOLEAN, popen \in CommandOutcomes :
        \E r \in {manage_py(Machine, supplied, popen)} :
            Finish("manage_py", PyBool(supplied), r)

WrapperNext ==
    \/ CallWrapper
    \/ CheckCallWrapper
    \/ RmAllPyc
    \/ PatchSouth
    \/ ManagePy

WrapperSpec == WrapperInit /\ [][WrapperNext]_vars

----------------------------------------------------------------------------
(* Construction of a manager from project_settings                         *)

\* The value project_settings gives a name, a constructor argument, and a
\* value the constructor works out.
Supplied(name) == [from |-> "project_settings", name |-> name]

Argument(name) == [from |-> "argument", name |-> name]

Computed(expression) == [from |-> "computed", expression |-> expression]

\* What every project_settings module has: the module's own dunder names
\* and the settings the constructors read without asking.
RequiredSettings ==
    {"__name__", "__file__", "project_name", "local_deploy_dir", "relative_django_dir"}

\* What a project_settings module may have besides.
OptionalSettings ==
    {"local_vcs_root", "vcs_root_dir", "python_bin", "quiet",
     "relative_django_settings_dir", "relative_ve_dir", "django_dir",
     "django_settings_dir", "ve_dir", "manage_py", "manage_py_settings"}

\* setting.startswith('__')
IsDunder(setting) == setting \in {"__name__", "__file__"}

ManagerClasses == {"AppManager", "PythonAppManager", "DjangoManager"}

\* setattr(self, name, value) on the attributes attrs
SetAttr(attrs, name, value) == (name :> value) @@ attrs

\* if not hasattr(self, name): self.<name> = value. The class defines
\* manage_py as a method, so hasattr is true of it on every instance.
SetDefault(attrs, name, value) ==
    IF name \in DOMAIN attrs \/ name = "manage_py" THEN attrs ELSE SetAttr(attrs, name, value)

\* AppManager.__init__(self, project_settings, localtasks=None, quiet=False,
\* verbose=False, noinput=False, **kwargs)
AppManager_init(settings) ==
    LET own == ("environment" :> PyNone) @@ ("quiet" :> Argument("quiet"))
                   @@ ("verbose" :> Argument("verbose")) @@ ("noinput" :> Argument("noinput"))
                   @@ ("localtasks_module" :> Argument("localtasks"))
        copied == {setting \in DOMAIN settings : ~IsDunder(setting)}
        merged == [name \in DOMAIN own \cup copied |->
                      IF name \in copied THEN settings[name] ELSE own[name]]
    IN  IF "local_vcs_root" \in DOMAIN merged
        THEN SetAttr(merged, "vcs_root_dir", merged["local_vcs_root"])
        ELSE SetAttr(merged, "vcs_root_dir",
                     Computed("path.abspath(path.join(self.local_deploy_dir, os.pardir))"))

\* PythonAppManager.__init__(self, **kwargs)
PythonAppManager_init(settings) ==
    SetAttr(AppManager_init(settings), "python_bin", Computed("self.get_python_bin()"))

\* DjangoManager.__init__(self, **kwargs)
DjangoManager_init(settings) ==
    LET a0 == PythonAppManager_init(settings)
        a1 == SetDefault(a0, "relative_django_settings_dir", a0["relative_django_dir"])
        a2 == SetDefault(a1, "relative_ve_dir",
                         Computed("path.join(self.relative_django_dir, '.ve')"))
        a3 == SetDefault(a2, "django_dir",
                         Computed("path.join(self.vcs_root_dir, self.relative_django_dir)"))
        a4 == SetDefault(a3, "django_settings_dir",
                         Computed("path.join(self.vcs_root_dir, self.relative_django_settings_dir)"))
        a5 == SetDefault(a4, "ve_dir",
                         Computed("path.join(self.vcs_root_dir, self.relative_ve_dir)"))
        a6 == SetDefault(a5, "manage_py", Computed("path.join(self.django_dir, 'manage.py')"))
    IN  SetDefault(a6, "manage_py_settings", PyNone)

\* cls(project_settings=project_settings, ...)
Construct(cls, settings) ==
    CASE cls = "AppManager" -> AppManager_init(settings)
      [] cls = "PythonAppManager" -> PythonAppManager_init(settings)
      [] cls = "DjangoManager" -> DjangoManager_init(settings)

\* Nothing has been constructed.
ConstructInit ==
    /\ os_name = "posix"
    /\ win32file = "missing"
    /\ settings_py = "imports"
    /\ variants = [E \in Envs |-> RegularFile(E)]
    /\ local_settings = Absent
    /\ local_settings_pyc = FALSE
    /\ private_settings = "absent"
    /\ environment = PyNone
    /\ last = NoCall
    /\ prev_link = PyNone
    /\ argv = NoArgv
    /\ run = IdleRun

\* A manager of one of the classes is constructed from a project_settings
\* module that has some of the optional settings.
ConstructManager ==
    /\ last = NoCall
    /\ \E cls \in ManagerClasses, optional \in SUBSET OptionalSettings :
          \E settings \in {[name \in RequiredSettings \cup optional |-> Supplied(name)]} :
             \E attrs \in {Construct(cls, settings)} :
                last' = [op |-> "__init__",
                         arg |-> [t |-> "module", cls |-> cls, vars |-> settings],
                         exc |-> NoExc,
                         ret |-> [t |-> "instance", vars |-> attrs],
                         steps |-> <<>>]
    /\ UNCHANGED <<os_name, win32file, settings_py, variants, local_settings,
                   local_settings_pyc, private_settings, environment, prev_link,
                   argv, run>>

ConstructNext == ConstructManager

ConstructSpec == ConstructInit /\ [][ConstructNext]_vars

----------------------------------------------------------------------------
(* util.py: ask_for_password, one pass through its loop at a time          *)

\* The largest max_attempts.
MaxAttempts == 3

\* What the user can type at the prompt; the empty password is one of them.
Passwords == {<<>>, <<"a">>, <<"b">>}

\* test_fn: None, or a function that accepts some of the passwords.
TestFns ==
    {[given |-> FALSE, accepts |-> {}]}
        \cup {[given |-> TRUE, accepts |-> accepted] : accepted \in SUBSET Passwords}

Sorry == <<"S", "o", "r", "r", "y">>

\* The mutation that allows one attempt more than max_attempts.
ask_for_password_one_more(r, test_fn, max_attempts, entered) ==
    IF r.ret # PyNone
    THEN [r EXCEPT !.pc = "returned"]
    ELSE IF r.index <= max_attempts
    THEN IF test_fn.given /\ entered \notin test_fn.accepts
         THEN [r EXCEPT !.index = @ + 1, !.trace = Append(@, entered),
                        !.printed = Append(@, Sorry)]
         ELSE [r EXCEPT !.index = @ + 1, !.trace = Append(@, entered),
                        !.ret = PyStr(entered)]
    ELSE [r EXCEPT !.pc = "raised", !.uncaught = Exc("InvalidPasswordError")]

\* One pass through "while password is None" of ask_for_password(prompt,
\* test_fn=None, max_attempts=3). In r, index is attempts, ret is password,
\* trace lists what getpass returned and printed the "Sorry" lines;
\* entered is what getpass returns in this pass.
ask_for_password(r, test_fn, max_attempts, entered) ==
    IF r.ret # PyNone
    THEN \* return password
         [r EXCEPT !.pc = "returned"]
    ELSE IF r.index < max_attempts
    THEN IF test_fn.given /\ entered \notin test_fn.accepts
         THEN [r EXCEPT !.index = @ + 1, !.trace = Append(@, entered),
                        !.printed = Append(@, Sorry)]
         ELSE [r EXCEPT !.index = @ + 1, !.trace = Append(@, entered),
                        !.ret = PyStr(entered)]
    ELSE [r EXCEPT !.pc = "raised", !.uncaught = Exc("InvalidPasswordError")]

\* ask_for_password has been called and is at the head of its loop.
PasswordInit ==
    /\ os_name = "posix"
    /\ win32file = "missing"
    /\ settings_py = "imports"
    /\ variants = [E \in Envs |-> RegularFile(E)]
    /\ local_settings = Absent
    /\ local_settings_pyc = FALSE
    /\ private_settings = "absent"
    /\ environment = PyNone
    /\ prev_link = PyNone
    /\ argv = NoArgv
    /\ \E max_attempts \in 0..MaxAttempts, test_fn \in TestFns :
          last = [op |-> "ask_for_password",
                  arg |-> [t |-> "args", test_fn |-> test_fn, max_attempts |-> max_attempts],
                  exc |-> NoExc, ret |-> PyNone, steps |-> <<>>]
    /\ run = [IdleRun EXCEPT !.pc = "while"]

\* attempts < max_attempts: getpass is called and the password tested
AskPrompt ==
    /\ last.op = "ask_for_password"
    /\ run.pc = "while"
    /\ \E entered \in Passwords :
          \E pass \in {ask_for_password(run, last.arg.test_fn, last.arg.max_attempts, entered)} :
             /\ pass.pc = "while"
             /\ run' = pass
    /\ UNCHANGED <<fsvars, last, prev_link, argv>>

\* else: raise InvalidPasswordError("None of your passwords worked")
AskGiveUp ==
    /\ last.op = "ask_for_password"
    /\ run.pc = "while"
    /\ \E entered \in Passwords :
          \E pass \in {ask_for_password(run, last.arg.test_fn, last.arg.max_attempts, entered)} :
             /\ pass.pc = "raised"
             /\ run' = pass
    /\ UNCHANGED <<fsvars, last, prev_link, argv>>

\* password is not None: the loop ends and the password is returned
AskReturn ==
    /\ last.op = "ask_for_password"
    /\ run.pc = "while"
    /\ \E entered \in Passwords :
          \E pass \in {ask_for_password(run, last.arg.test_fn, last.arg.max_attempts, entered)} :
             /\ pass.pc = "returned"
             /\ run' = pass
    /\ UNCHANGED <<fsvars, last, prev_link, argv>>

PasswordNext ==
    \/ AskPrompt
    \/ AskGiveUp
    \/ AskReturn

\* getpass returns whenever it is called: the user types something.
PasswordSpec == PasswordInit /\ [][PasswordNext]_vars /\ WF_vars(PasswordNext)

----------------------------------------------------------------------------
(* convert_argument applied to one value, alone and inside a token         *)

\* The longest value, in characters.
MaxValueLen == 5

\* The values: the spellings of 'true' in either case, the spellings of
\* 'false', and digits mixed with a letter.
ValueChars == {{"t", "T", "r", "u", "e"}, {"f", "a", "l", "S", "e"}, {"0", "1", "5", "a"}}

Values == UNION {[1..n -> chars] : n \in 0..MaxValueLen, chars \in ValueChars}

\* One value is at hand and nothing has been called.
CoerceInit ==
    /\ os_name = "posix"
    /\ win32file = "missing"
    /\ settings_py = "imports"
    /\ variants = [E \in Envs |-> RegularFile(E)]
    /\ local_settings = Absent
    /\ local_settings_pyc = FALSE
    /\ private_settings = "absent"
    /\ environment = PyNone
    /\ last = NoCall
    /\ prev_link = PyNone
    /\ \E value \in Values : argv = [NoArgv EXCEPT !.tasks = <<value>>]
    /\ run = IdleRun

\* convert_argument(value)
ConvertArgument ==
    /\ last = NoCall
    /\ \E ret \in {convert_argument(argv.tasks[1])} :
          last' = [op |-> "convert_argument", arg |-> PyStr(argv.tasks[1]),
                   exc |-> NoExc, ret |-> ret, steps |-> <<>>]
    /\ UNCHANGED <<os_name, win32file, settings_py, variants, local_settings,
                   local_settings_pyc, private_settings, environment, prev_link,
                   argv, run>>

\* convert_task_bits('a:' + value): the value as a positional argument
ConvertPositional ==
    /\ last = NoCall
    /\ \E bits \in {convert_task_bits(<<"a", ":">> \o argv.tasks[1])} :
          last' = [op |-> "convert_task_bits",
                   arg |-> PyStr(<<"a", ":">> \o argv.tasks[1]),
                   exc |-> NoExc, ret |-> bits, steps |-> <<>>]
    /\ UNCHANGED <<os_name, win32file, settings_py, variants, local_settings,
                   local_settings_pyc, private_settings, environment, prev_link,
                   argv, run>>

\* convert_task_bits('a:k=' + value): the value as a keyword argument
ConvertKeyword ==
    /\ last = NoCall
    /\ \E bits \in {convert_task_bits(<<"a", ":", "k", "=">> \o argv.tasks[1])} :
          last' = [op |-> "convert_task_bits",
                   arg |-> PyStr(<<"a", ":", "k", "=">> \o argv.tasks[1]),
                   exc |-> NoExc, ret |-> bits, steps |-> <<>>]
    /\ UNCHANGED <<os_name, win32file, settings_py, variants, local_settings,
                   local_settings_pyc, private_settings, environment, prev_link,
                   argv, run>>

CoerceNext ==
    \/ ConvertArgument
    \/ ConvertPositional
    \/ ConvertKeyword

CoerceSpec == CoerceInit /\ [][CoerceNext]_vars

----------------------------------------------------------------------------
(* Properties of the environment linker                                    *)

LinkCallEnded == last.op = "link_local_settings"

\* How a platform makes local_settings.py stand for the variant of env.
LinkedAs(m, env) ==
    IF os_name = "posix"
    THEN m.local_settings = SymLink(VariantName(env))
    ELSE IF os_name = "nt"
         THEN IF win32file = "symlink"
              THEN m.local_settings = SymLink(SourcePath(env))
              ELSE m.local_settings = HardLink(SourcePath(env))
         ELSE /\ PathExists(m, TargetPath)
              /\ m.local_settings.kind \in {"file", "symlink"}
              /\ ContentAt(m, TargetPath) = ContentAt(m, SourcePath(env))

\* C1 as claimed: whenever link_local_settings(E) returns normally,
\* local_settings.py is a link whose target is exactly 'local_settings.py.E',
\* local_settings.pyc does not exist and self.environment = E.
C1_LinkTargetExactlyVariantName ==
    (LinkCallEnded /\ last.exc = NoExc) =>
        /\ local_settings = SymLink(VariantName(last.arg))
        /\ ~local_settings_pyc
        /\ environment = last.arg

\* C1 amended: whenever link_local_settings(E) returns normally,
\* local_settings.pyc does not exist, self.environment = E, and
\* local_settings.py stands for the variant of E the way the platform
\* allows: on posix a symbolic link whose target is exactly
\* 'local_settings.py.E', on nt a symbolic link to (or a hard link of) the
\* variant's full path, elsewhere a copy of the variant's text.
C1_SuccessfulLinkPostcondition ==
    (LinkCallEnded /\ last.exc = NoExc) =>
        /\ LinkedAs(Machine, last.arg)
        /\ ~local_settings_pyc
        /\ environment = last.arg

C1_Witness ==
    /\ LinkCallEnded
    /\ last.exc = NoExc
    /\ os_name = "posix"
    /\ local_settings = SymLink(VariantName(PyStr(EuProd)))

\* The preconditions of link_local_settings(env) in machine m.
PreconditionsHold(m, env) ==
    /\ m.settings_py = "imports"
    /\ \E E \in Envs : env = PyStr(E) /\ m.variants[E].kind = "file"

\* C2: a link_local_settings(E) call made while settings.py is absent, or
\* does not mention local_settings, or local_settings.py.E does not exist,
\* raises InvalidProjectError and leaves local_settings.py, its .pyc sibling
\* and self.environment exactly as they were.
C2_FailedPreconditionMutatesNothing ==
    [][(last'.op = "link_local_settings" /\ ~PreconditionsHold(Machine, last'.arg)) =>
          /\ last'.exc.cls = "InvalidProjectError"
          /\ local_settings' = local_settings
          /\ local_settings_pyc' = local_settings_pyc
          /\ environment' = environment
          /\ variants' = variants]_vars

C2_Witness ==
    /\ LinkCallEnded
    /\ last.exc.cls = "InvalidProjectError"
    /\ settings_py = "imports"
    /\ local_settings_pyc
    /\ local_settings.kind = "symlink"

\* The call that ended last came straight after a successful
\* link_local_settings(prev_link).
AfterSuccessfulLink == prev_link # PyNone

C4_InferReturnsLinkedEnvironment ==
    (os_name = "posix" /\ AfterSuccessfulLink /\ last.op = "infer_environment") =>
        /\ last.exc = NoExc
        /\ last.ret = prev_link

\* C5: infer_environment() raises the TasksError 'no environment set'
\* whenever local_settings.py does not exist or is not a link, and returns
\* a value only when it is a link (stated for posix).
C5_InferRaisesTasksErrorUnlessLink ==
    (os_name = "posix" /\ last.op = "infer_environment") =>
        /\ local_settings.kind # "symlink" => last.exc.cls = "TasksError"
        /\ last.exc = NoExc => local_settings.kind = "symlink"

\* C6: a link_local_settings call that fails never ends with a previously
\* existing local_settings.py gone and no new one in its place.
C6_FailedLinkKeepsCanonicalPath ==
    [][(last'.op = "link_local_settings" /\ last'.exc # NoExc
        /\ local_settings # Absent) =>
          local_settings' # Absent]_vars

\* C7 as claimed: started with local_settings.py absent or linking to an
\* existing variant, after any calls of link_local_settings, deploy and
\* quick_test local_settings.py is absent or a link to exactly one existing
\* variant file.
C7_AbsentOrLinkToVariant ==
    \/ local_settings = Absent
    \/ /\ local_settings.kind = "symlink"
       /\ \E E \in Envs : /\ variants[E].kind = "file"
                          /\ ResolveFrom(local_settings.target) = SourcePath(PyStr(E))

\* C7 amended: started so, local_settings.py is always absent, or a
\* symbolic link to exactly one existing variant file, or (on a platform
\* that does not make symbolic links) a hard link of one existing variant
\* file or a regular file holding a copy of one variant's text.
C7_AbsentOrStandsForVariant ==
    \/ C7_AbsentOrLinkToVariant
    \/ /\ os_name = "nt"
       /\ local_settings.kind = "hardlink"
       /\ \E E \in Envs : /\ variants[E].kind = "file"
                          /\ local_settings.to = SourcePath(PyStr(E))
    \/ /\ os_name = "other"
       /\ local_settings.kind = "file"
       /\ \E E \in Envs : /\ variants[E].kind = "file"
                          /\ local_settings.content = variants[E].content

C7_Witness ==
    /\ last.op = "quick_test"
    /\ last.exc = NoExc
    /\ local_settings = SymLink(VariantName(PyStr(Dev)))

----------------------------------------------------------------------------
(* Properties of main                                                      *)

\* fname of a task token.
TaskName(task_bits) == convert_task_bits(task_bits).fname

MainEnded == run.pc \in {"returned", "raised"}

\* The options let main past its early returns and project_settings can be
\* imported.
PastOptions ==
    /\ ~argv.help
    /\ ~argv.task_description
    /\ ~(argv.verbose /\ argv.quiet)
    /\ argv.importable

EveryInvokedReturned == \A i \in 1..Len(run.invoked) : run.invoked[i].exc = NoExc

\* C8: a command line whose first task names something outside the
\* manager's task registry makes main invoke no manager operation, report
\* the invalid name and return 2.
C8_UnknownTaskRejected ==
    (/\ MainEnded
     /\ PastOptions
     /\ TaskName(argv.tasks[1]) \notin DjangoManagerTasks) =>
        /\ run.invoked = <<>>
        /\ run.printed = <<TaskName(argv.tasks[1])>>
        /\ run.pc = "returned"
        /\ run.ret = PyInt(2)

\* C9: in main's task loop a task token is parsed and invoked only while
\* no earlier token of the command line was rejected as unknown and no
\* earlier task raised: after the first failure nothing more is attempted.
C9_FailFast ==
    [][/\ run.pc = "loop"
       /\ run.printed = <<>>
       /\ run.uncaught = NoExc
       /\ run.stderr = <<>>
       /\ EveryInvokedReturned]_vars

C9_Witness ==
    /\ run.pc = "returned"
    /\ Len(run.invoked) = 1
    /\ IsTasksError(run.invoked[1].exc)
    /\ Len(argv.tasks) = 2
    /\ TaskName(argv.tasks[2]) \in DjangoManagerMethods

\* C10: the tasks of one command line are invoked in the order given, each
\* only after the one before it returned normally, none twice, and none is
\* skipped while all earlier ones succeeded.
C10_TasksInvokedInOrder ==
    (MainEnded /\ PastOptions) =>
        /\ Len(run.invoked) <= Len(argv.tasks)
        /\ \A i \in 1..Len(run.invoked) :
              /\ run.invoked[i].fname = TaskName(argv.tasks[i])
              /\ i < Len(run.invoked) => run.invoked[i].exc = NoExc
        /\ (run.printed = <<>> /\ EveryInvokedReturned) =>
              Len(run.invoked) = Len(argv.tasks)

\* What calling the first task of the command line tasks does in machine m
\* when that does not depend on the collaborators: it raises exc (NoExc
\* when it returns) whatever git, the database and the test run do.
FirstTaskEndsAs(m, tasks, exc) ==
    \E bits \in {convert_task_bits(tasks[1])} :
        /\ bits.fname \in DjangoManagerMethods
        /\ \A outs \in TaskOutcomes :
              invoke(m, bits.fname, bits.pos_args, bits.kwargs, outs).exc = exc

\* The exceptions a task can end with.
TaskExceptions ==
    {Exc(cls) : cls \in TasksErrorClasses \cup
                         {"OSError", "Exception", "TypeError", "AttributeError",
                          "CalledProcessError", "pywintypes.error"}}

\* C11: when main is run past its option checks and the first task of the
\* command line raises a TasksError (or a subclass), main writes the error
\* to sys.stderr and returns that error's exit_code; when the task raises
\* any other exception, that exception leaves main uncaught.
C11_TasksErrorBecomesExitCode ==
    [][\A exc \in TaskExceptions :
          (/\ run.pc = "idle"
           /\ PastOptions'
           /\ FirstTaskEndsAs(Machine, argv'.tasks, exc)) =>
             IF IsTasksError(exc)
             THEN /\ run'.pc = "returned"
                  /\ run'.ret = ExitCodeOf(exc)
                  /\ run'.stderr = <<exc.cls>>
             ELSE /\ run'.pc = "raised"
                  /\ run'.uncaught = exc]_vars

\* Every task of the command line tasks, run in order from machine m, is
\* in the registry and returns normally whatever the collaborators do.
EveryTaskCompletes(m, tasks) ==
    /\ \A i \in 1..Len(tasks) : TaskName(tasks[i]) \in DjangoManagerTasks
    /\ \A outs \in TaskOutcomes :
          \E done \in {run_tasks(m, LoopRun, tasks, outs).run} :
              /\ done.pc = "returned"
              /\ Len(done.invoked) = Len(tasks)
              /\ \A i \in 1..Len(done.invoked) : done.invoked[i].exc = NoExc

\* C12: when main is run past its option checks with a command line whose
\* tasks are all in the registry and all complete without error, main
\* returns and the process exit status is 0.
C12_AllTasksCompleteExitsZero ==
    [][(/\ run.pc = "idle"
        /\ PastOptions'
        /\ EveryTaskCompletes(Machine, argv'.tasks)) =>
          /\ run'.pc = "returned"
          /\ sys_exit(run'.ret) = PyInt(0)]_vars

\* C13: when main is called with both --quiet and --verbose, and neither
\* --help nor --task-description, it returns 2 after writing the complaint
\* to sys.stderr, without importing project_settings, constructing a
\* manager or invoking a task; the checkout is left as it was.
C13_QuietAndVerboseIsUsageError ==
    (/\ MainEnded
     /\ ~argv.help
     /\ ~argv.task_description
     /\ argv.quiet
     /\ argv.verbose) =>
        /\ run.pc = "returned"
        /\ run.ret = PyInt(2)
        /\ run.stderr = <<"Cannot set both verbose and quiet">>
        /\ run.trace = <<>>
        /\ run.invoked = <<>>
        /\ private_settings = "absent"
        /\ environment = PyNone

C13_Witness ==
    /\ MainEnded
    /\ ~argv.help
    /\ ~argv.task_description
    /\ argv.quiet
    /\ argv.verbose
    /\ argv.importable
    /\ Len(argv.tasks) = MaxTasks
    /\ run.ret = PyInt(2)

\* C14: when main is called with --help it returns 0 whatever the other
\* options and the task tokens are: it prints the help text, constructs no
\* manager, invokes no task, rejects no task name and writes nothing to
\* sys.stderr.
C14_HelpShortCircuits ==
    (MainEnded /\ argv.help) =>
        /\ run.pc = "returned"
        /\ run.ret = PyInt(0)
        /\ Head(run.trace) = "print_help_text"
        /\ "get_application_manager" \notin Range(run.trace)
        /\ run.invoked = <<>>
        /\ run.printed = <<>>
        /\ run.stderr = <<>>
        /\ private_settings = "absent"
        /\ environment = PyNone

C14_Witness ==
    /\ MainEnded
    /\ argv.help
    /\ argv.quiet
    /\ argv.verbose
    /\ Len(argv.tasks) > 0
    /\ TaskName(argv.tasks[1]) \notin DjangoManagerTasks
    /\ run.ret = PyInt(0)

----------------------------------------------------------------------------
(* Properties of deploy                                                    *)

\* The four steps of deploy, by method name.
DeployStepNames ==
    <<"update_git_submodules", "create_private_settings", "link_local_settings", "update_db">>

\* The entries of a deploy's trace that are one of its four steps.
OwnSteps(steps) ==
    LET IsOwn(entry) == entry.step \in Range(DeployStepNames)
    IN  SelectSeq(steps, IsOwn)

\* The entries of a trace for the method named step.
EntriesOf(steps, step) ==
    LET IsIt(entry) == entry.step = step
    IN  SelectSeq(steps, IsIt)

\* C15: a deploy call goes through update_git_submodules,
\* create_private_settings, link_local_settings(environment) and update_db
\* in that order, each at most once and each only after the one before it
\* returned normally, all four when deploy returns normally; the link is
\* made for the environment deploy resolved (its argument, or the inferred
\* one).
C15_DeployStepsInOrder ==
    [][last'.op = "deploy" =>
          \E own \in {OwnSteps(last'.steps)} :
              /\ StepNames(own) = SubSeq(DeployStepNames, 1, Len(own))
              /\ \A i \in 1..(Len(own) - 1) : own[i].exc = NoExc
              /\ last'.exc = NoExc => Len(own) = Len(DeployStepNames)
              /\ Len(own) < Len(DeployStepNames) => last'.exc # NoExc
              /\ Len(own) >= 3 =>
                    own[3].arg = IF Truthy(last'.arg) THEN last'.arg
                                 ELSE infer_environment(Machine).ret]_vars

C15_Witness ==
    /\ last.op = "deploy"
    /\ last.arg = PyNone
    /\ last.exc = NoExc
    /\ StepNames(OwnSteps(last.steps)) = DeployStepNames
    /\ environment = PyStr(Dev)

\* C16: when a step of deploy raises, deploy raises that same exception,
\* the step that raised is the last thing deploy did (no later step, no
\* look for a post-deploy hook, no hook), and what the earlier steps did
\* stays: private_settings.py once created is there, and a link that was
\* made stands for the environment deploy linked.
C16_FailedDeployStopsAndKeeps ==
    [][(last'.op = "deploy" /\ last'.exc # NoExc) =>
          \E steps \in {last'.steps} :
              /\ Len(steps) > 0
              /\ steps[Len(steps)].exc = last'.exc
              /\ \A i \in 1..(Len(steps) - 1) : steps[i].exc = NoExc
              /\ "post_deploy" \notin Range(StepNames(steps))
              /\ "hasattr_post_deploy" \notin Range(StepNames(steps))
              /\ "create_private_settings" \in Range(StepNames(steps)) =>
                    /\ private_settings' # "absent"
                    /\ private_settings # "absent" => private_settings' = private_settings
              /\ "update_db" \in Range(StepNames(steps)) =>
                    /\ LinkedAs(Machine', EntriesOf(steps, "link_local_settings")[1].arg)
                    /\ environment' = EntriesOf(steps, "link_local_settings")[1].arg
                    /\ ~local_settings_pyc']_vars

C16_Witness ==
    /\ last.op = "deploy"
    /\ last.exc = Exc("ShellCommandError")
    /\ last.steps[Len(last.steps)].step = "update_db"
    /\ private_settings \in SecretKeys
    /\ last.arg = PyStr(EuProd)
    /\ os_name = "posix"
    /\ local_settings = SymLink(VariantName(PyStr(EuProd)))

\* C17: deploy calls infer_environment() if and only if it was called with
\* no environment argument; an argument that was supplied is the
\* environment deploy links, and when inference fails deploy stops there,
\* before any of its four steps.
C17_InfersOnlyWithoutArgument ==
    [][last'.op = "deploy" =>
          /\ ("infer_environment" \in Range(StepNames(last'.steps))) <=> (last'.arg = PyNone)
          /\ \A i \in 1..Len(last'.steps) :
                (last'.arg # PyNone /\ last'.steps[i].step = "link_local_settings") =>
                    last'.steps[i].arg = last'.arg
          /\ (last'.steps[1].step = "infer_environment" /\ last'.steps[1].exc # NoExc) =>
                /\ Len(last'.steps) = 1
                /\ last'.exc = last'.steps[1].exc
                /\ private_settings' = private_settings
                /\ local_settings' = local_settings]_vars

\* C18: a deploy call invokes the post-deploy hook at most once; it does so
\* exactly when its four steps all returned normally and localtasks has a
\* post_deploy attribute, as the last thing it does, and with the
\* environment it linked as the argument.
C18_HookOnceAfterTheSteps ==
    last.op = "deploy" =>
        \E steps \in {last.steps} :
            \E hooks \in {EntriesOf(steps, "post_deploy")},
               asked \in {EntriesOf(steps, "hasattr_post_deploy")} :
                /\ Len(hooks) <= 1
                /\ Len(asked) <= 1
                /\ Len(asked) = 1 <=>
                      /\ StepNames(OwnSteps(steps)) = DeployStepNames
                      /\ \A i \in 1..Len(OwnSteps(steps)) : OwnSteps(steps)[i].exc = NoExc
                /\ Len(hooks) = 1 <=> (Len(asked) = 1 /\ asked[1].arg = PyBool(TRUE))
                /\ Len(hooks) = 1 =>
                      /\ steps[Len(steps)] = hooks[1]
                      /\ StepNames(SubSeq(steps, Len(steps) - 5, Len(steps) - 2))
                            = DeployStepNames
                      /\ hooks[1].arg = OwnSteps(steps)[3].arg
                      /\ hooks[1].arg = environment
                      /\ last.exc = NoExc

C18_Witness ==
    /\ last.op = "deploy"
    /\ last.arg = PyStr(Dev)
    /\ Len(EntriesOf(last.steps, "post_deploy")) = 1
    /\ last.steps[Len(last.steps)].arg = PyStr(Dev)

\* C19: no call overwrites private_settings.py: once the file exists every
\* create_private_settings and deploy call leaves its text as it is, and
\* the file comes into being only through one of those calls, holding the
\* secrets that call generated.
C19_PrivateSettingsWrittenOnce ==
    [][/\ private_settings # "absent" => private_settings' = private_settings
       /\ (private_settings = "absent" /\ private_settings' # "absent") =>
             /\ "create_private_settings" \in Range(StepNames(last'.steps))
             /\ last'.op \in {"create_private_settings", "deploy"}
             /\ private_settings' \in SecretKeys]_vars

C19_Witness ==
    /\ last.op = "deploy"
    /\ last.exc = NoExc
    /\ "create_private_settings" \in Range(StepNames(last.steps))
    /\ private_settings = "preexisting"

----------------------------------------------------------------------------
(* Properties of the argument mini-language                                *)

\* C20: for every token without a ':' convert_task_bits returns the whole
\* token as the name, no positional values and no keyword values.
C20_LoneNameIsWholeToken ==
    (last.op = "convert_task_bits" /\ ":" \notin Range(last.arg.s)) =>
        /\ last.ret.fname = last.arg.s
        /\ Len(last.ret.pos_args) = 0
        /\ DOMAIN last.ret.kwargs = {}

C20_Witness ==
    /\ last.op = "convert_task_bits"
    /\ last.arg.s = <<"a", "=", ",", "1">>
    /\ last.ret.fname = <<"a", "=", ",", "1">>

\* The raw argument tokens of a token that has a ':': what follows the
\* first ':', cut at every ','.
RawArgs(task_bits) ==
    SplitOn(SubSeq(task_bits, IndexOf(task_bits, ":") + 1, Len(task_bits)), ",")

\* The places of the raw tokens without '=' and of those with one.
PositionalPlaces(raw) == {k \in 1..Len(raw) : "=" \notin Range(raw[k])}

KeywordPlaces(raw) == {k \in 1..Len(raw) : "=" \in Range(raw[k])}

\* The place of the n-th raw token without '='.
NthPositional(raw, n) ==
    CHOOSE k \in PositionalPlaces(raw) :
        Cardinality({j \in PositionalPlaces(raw) : j <= k}) = n

\* What stands before and after the first '=' of a raw keyword token.
KeyOf(arg) == SubSeq(arg, 1, IndexOf(arg, "=") - 1)

ValueOf(arg) == SubSeq(arg, IndexOf(arg, "=") + 1, Len(arg))

\* C21 as stated: the keyword mapping has as many entries as there are
\* raw tokens with an '='.
C21_OneEntryPerKeywordToken ==
    (last.op = "convert_task_bits" /\ ":" \in Range(last.arg.s)) =>
        Cardinality(DOMAIN last.ret.kwargs)
            = Cardinality(KeywordPlaces(RawArgs(last.arg.s)))

\* C21: for every token with a ':' the name is what stands before the
\* first ':'; the positional values are the coerced raw tokens without
\* '=', in their order; the keys of the keyword mapping are the keys of
\* the raw tokens with '=' (cut at the first '='), one entry per distinct
\* key, and a key's value is the coerced value of the last raw token that
\* has the key.
C21_PartitionsArguments ==
    (last.op = "convert_task_bits" /\ ":" \in Range(last.arg.s)) =>
        LET raw == RawArgs(last.arg.s)
            ret == last.ret
        IN  /\ ret.fname = SubSeq(last.arg.s, 1, IndexOf(last.arg.s, ":") - 1)
            /\ Len(ret.pos_args) = Cardinality(PositionalPlaces(raw))
            /\ \A n \in 1..Len(ret.pos_args) :
                  ret.pos_args[n] = convert_argument(raw[NthPositional(raw, n)])
            /\ DOMAIN ret.kwargs = {KeyOf(raw[k]) : k \in KeywordPlaces(raw)}
            /\ \A k \in KeywordPlaces(raw) :
                  (\A j \in KeywordPlaces(raw) : KeyOf(raw[j]) = KeyOf(raw[k]) => j <= k)
                      => ret.kwargs[KeyOf(raw[k])] = convert_argument(ValueOf(raw[k]))

C21_Witness ==
    /\ last.op = "convert_task_bits"
    /\ last.arg.s = <<":", "=", "1", ",", "=">>
    /\ DOMAIN last.ret.kwargs = {<<>>}
    /\ last.ret.kwargs[<<>>] = PyStr(<<>>)

\* value equals word when case is ignored (word is in lower case).
EqualsIgnoringCase(value, word) ==
    /\ Len(value) = Len(word)
    /\ \A i \in 1..Len(word) :
          \/ value[i] = word[i]
          \/ \E k \in 1..26 : LowerCase[k] = word[i] /\ UpperCase[k] = value[i]

\* value without its leading zeros, the last character kept.
WithoutLeadingZeros(value) ==
    LET zeros == {k \in 0..(Len(value) - 1) : \A i \in 1..k : value[i] = "0"}
        most == CHOOSE k \in zeros : \A j \in zeros : j <= k
    IN  SubSeq(value, most + 1, Len(value))

\* ret is what the coercion rule gives for value: True for 'true' and False
\* for 'false' in any case, the number a non-empty string of digits
\* writes, and the string itself otherwise.
CoercedFrom(value, ret) ==
    IF EqualsIgnoringCase(value, <<"t", "r", "u", "e">>) THEN ret = PyBool(TRUE)
    ELSE IF EqualsIgnoringCase(value, <<"f", "a", "l", "s", "e">>) THEN ret = PyBool(FALSE)
    ELSE IF Len(value) > 0 /\ \A i \in 1..Len(value) : value[i] \in Range(Digits)
    THEN /\ ret.t = "int"
         /\ IntToStr(ret.n) = WithoutLeadingZeros(value)
    ELSE ret = PyStr(value)

\* C22: convert_argument returns True for 'true' and False for 'false' in
\* any case, the integer for a non-empty string of digits, and every other
\* string unchanged (digits after or before a letter included); a
\* positional and a keyword value of a token are coerced in the same way.
C22_CoercesEveryValue ==
    /\ last.op = "convert_argument" => CoercedFrom(last.arg.s, last.ret)
    /\ (last.op = "convert_task_bits" /\ Len(last.ret.pos_args) = 1) =>
          CoercedFrom(argv.tasks[1], last.ret.pos_args[1])
    /\ (last.op = "convert_task_bits" /\ DOMAIN last.ret.kwargs # {}) =>
          CoercedFrom(argv.tasks[1], last.ret.kwargs[<<"k">>])
    /\ last.op = "convert_task_bits" =>
          Len(last.ret.pos_args) + Cardinality(DOMAIN last.ret.kwargs) = 1

C22_Witness ==
    /\ last.op = "convert_argument"
    /\ last.arg.s = <<"a", "1", "5">>
    /\ last.ret = PyStr(<<"a", "1", "5">>)

\* The argstring of a token that has a ':': what follows the first ':'.
ArgString(task_bits) == SubSeq(task_bits, IndexOf(task_bits, ":") + 1, Len(task_bits))

\* The places of the commas of an argstring.
Commas(args) == {i \in 1..Len(args) : args[i] = ","}

\* Where segment k of an argstring begins and ends: after the (k-1)-th
\* comma (or at the start) and before the k-th (or at the end).
SegmentStart(args, k) ==
    IF k = 1 THEN 1
    ELSE 1 + CHOOSE i \in Commas(args) : Cardinality({j \in Commas(args) : j <= i}) = k - 1

SegmentEnd(args, k) ==
    IF k = Cardinality(Commas(args)) + 1 THEN Len(args)
    ELSE (CHOOSE i \in Commas(args) : Cardinality({j \in Commas(args) : j <= i}) = k) - 1

SegmentHasEquals(args, k) ==
    \E i \in SegmentStart(args, k)..SegmentEnd(args, k) : args[i] = "="

SegmentIsEmpty(args, k) == SegmentEnd(args, k) < SegmentStart(args, k)

\* C23: for every token with a ':' the positional values and the raw
\* keyword segments together are as many as the commas of the argstring
\* plus one, and every empty segment is the empty string among the
\* positional values, at the place its position among the segments
\* without '=' gives it.
C23_EmptySegmentsKept ==
    (last.op = "convert_task_bits" /\ ":" \in Range(last.arg.s)) =>
        LET args == ArgString(last.arg.s)
            segments == 1..(Cardinality(Commas(args)) + 1)
            keyword == {k \in segments : SegmentHasEquals(args, k)}
        IN  /\ Len(last.ret.pos_args) + Cardinality(keyword)
                  = Cardinality(Commas(args)) + 1
            /\ \A k \in segments :
                  SegmentIsEmpty(args, k) =>
                      LET n == Cardinality({j \in segments \ keyword : j <= k})
                      IN  /\ n \in 1..Len(last.ret.pos_args)
                          /\ last.ret.pos_args[n] = PyStr(<<>>)

C23_Witness ==
    /\ last.op = "convert_task_bits"
    /\ last.arg.s = <<":", ",", "=", ",">>
    /\ last.ret.pos_args = <<PyStr(<<>>), PyStr(<<>>)>>
    /\ DOMAIN last.ret.kwargs = {<<>>}

----------------------------------------------------------------------------
(* Properties of the environment attribute                                 *)

\* The environments of the link_local_settings calls of a trace that
\* returned, in order.
SuccessfulLinks(steps) ==
    LET IsLink(entry) == entry.step = "link_local_settings" /\ entry.exc = NoExc
        links == SelectSeq(steps, IsLink)
    IN  [i \in 1..Len(links) |-> links[i].arg]

\* C24: across deploy, infer_environment, quick_test, create_private_settings
\* and link_local_settings calls the environment attribute changes only
\* through a link_local_settings call that returned: after every operation
\* it is the environment of the last such call made inside the operation,
\* and what it was before when there was none.
C24_OnlyLinkerSetsEnvironment ==
    [][LET links == SuccessfulLinks(last'.steps)
       IN  environment' = IF Len(links) = 0 THEN environment ELSE links[Len(links)]]_vars

----------------------------------------------------------------------------
(* Properties of the subprocess wrappers                                   *)

\* The exit codes a call lets pass: those of its accepted_returncode_list,
\* and 0 alone where there is no such list.
AcceptedBy(call) == IF call.op = "check_call_wrapper" THEN call.arg.items ELSE {0}

WrapperOps == {"call_wrapper", "check_call_wrapper", "rm_all_pyc", "patch_south", "manage_py"}

\* C25: a wrapper, helper or task that ran a command which ended with an
\* exit code that is not accepted raises to its caller, and runs no
\* command twice.
C25_NonAcceptedExitAlwaysRaises ==
    last.op \in WrapperOps =>
        /\ (\E i \in 1..Len(last.steps) :
                /\ last.steps[i].arg.t = "int"
                /\ last.steps[i].arg.n \notin AcceptedBy(last))
              => last.exc # NoExc
        /\ \A i, j \in 1..Len(last.steps) :
              last.steps[i].step = last.steps[j].step => i = j

----------------------------------------------------------------------------
(* Properties of quick_test                                                *)

\* C26: when quick_test began by inferring the environment O, then however
\* its steps ended, local_settings.py stands for O's variant and the
\* environment attribute is O once quick_test is over.
C26_QuickTestRestoresEnvironment ==
    [][(last'.op = "quick_test" /\ Returned(infer_environment(Machine))) =>
           LET original_environment == infer_environment(Machine).ret
           IN  /\ LinkedAs(Machine', original_environment)
               /\ environment' = original_environment]_vars

----------------------------------------------------------------------------
(* Properties of the construction of a manager                             *)

\* C27: every setting of project_settings whose name does not begin with
\* '__' is an attribute of the constructed manager with the value
\* project_settings gave it, and no setting whose name begins with '__' is
\* copied.
C27_SuppliedNeverOverwritten ==
    last.op = "__init__" =>
        \A setting \in DOMAIN last.arg.vars :
            IF IsDunder(setting)
            THEN setting \notin DOMAIN last.ret.vars
            ELSE /\ setting \in DOMAIN last.ret.vars
                 /\ last.ret.vars[setting] = last.arg.vars[setting]

----------------------------------------------------------------------------
(* Properties of the linker over every prior entry                         *)

\* C28: on posix, a link_local_settings(E) call made while settings.py
\* imports local_settings and local_settings.py.E exists returns normally
\* and leaves local_settings.py a link to local_settings.py.E, whatever
\* local_settings.py was before: absent, a regular file, a link to an
\* existing variant or a link whose variant is gone.
C28_LinkSucceedsOverAnyEntry ==
    [][(/\ os_name = "posix"
        /\ last'.op = "link_local_settings"
        /\ PreconditionsHold(Machine, last'.arg)) =>
           /\ last'.exc = NoExc
           /\ local_settings' = SymLink(VariantName(last'.arg))]_vars

----------------------------------------------------------------------------
(* Properties of the task registry                                         *)

\* C29: when main stops at a token whose name is in the tasks registry
\* of the manager, the task has been called: a registered name is always
\* resolved to a method, and main never stops at its lookup.
C29_RegistryIsClosed ==
    (/\ run.pc \notin {"idle", "loop"}
     /\ run.index \in 1..Len(argv.tasks)
     /\ TaskName(argv.tasks[run.index]) \in DjangoManagerTasks)
        => Len(run.invoked) = run.index

----------------------------------------------------------------------------
(* Properties of ask_for_password                                          *)

\* The entered password passes: there is no test_fn, or test_fn accepts it.
Passes(call, entered) == ~call.arg.test_fn.given \/ entered \in call.arg.test_fn.accepts

\* What holds of ask_for_password at every moment.
PromptsBounded ==
    last.op = "ask_for_password" =>
        /\ Len(run.trace) <= last.arg.max_attempts
        /\ \A i \in 1..Len(run.trace) : Passes(last, run.trace[i]) => i = Len(run.trace)
        /\ run.pc = "returned" =>
              /\ Len(run.trace) >= 1
              /\ Passes(last, run.trace[Len(run.trace)])
              /\ run.ret = PyStr(run.trace[Len(run.trace)])
        /\ run.pc = "raised" =>
              /\ run.uncaught = Exc("InvalidPasswordError")
              /\ Len(run.trace) = last.arg.max_attempts
              /\ \A i \in 1..Len(run.trace) : ~Passes(last, run.trace[i])

\* C30: ask_for_password prompts at most max_attempts times and never
\* after a password that passed; it returns the first password that passed
\* (the first entered one when there is no test_fn), raises
\* InvalidPasswordError exactly when max_attempts passwords in a row were
\* rejected, and always comes to one of the two ends.
C30_BoundedPrompts ==
    /\ []PromptsBounded
    /\ <>(run.pc \in {"returned", "raised"})

C30_Witness ==
    /\ last.op = "ask_for_password"
    /\ last.arg.max_attempts = MaxAttempts
    /\ run.pc = "returned"
    /\ Len(run.trace) = 2
    /\ run.ret = PyStr(<<>>)

====
